---- MODULE Spec2Model ----
(***************************************************************************)
(* The VRL bytecode virtual machine of lib/vrl/compiler/src/vm/machine.rs: *)
(* the bytecode container (Vm), the per-invocation state (VmState), the    *)
(* host context (variable store and event target) and the interpreter      *)
(* loop Vm::interpret, one arm per OpCode.                                 *)
(*                                                                         *)
(* Spec interprets a stream made of a stored program (one of Programs, built *)
(* with write_chunk and write_primitive; the empty one included) followed   *)
(* by up to MaxInstr slots that are an input, drawn when they are fetched:  *)
(* their offsets are at most MaxJump, so past the stored program the        *)
(* pointer only moves forward, no slot is fetched twice, and the slots      *)
(* already consumed need not be kept.                                       *)
(***************************************************************************)
EXTENDS Integers, Sequences, FiniteSets, TLC

VARIABLES
    instructions,         \* Vm.instructions: the stored program
    jumps,                \* builder bookkeeping: slots returned by emit_jump, with
                          \*   the stream length at their last patch_jump (or Unpatched)
    values,               \* Vm.values: the constant pool
    targets,              \* Vm.targets: the target table
    phase,                \* "compile" | "run" | "done"
    instruction_pointer,  \* VmState.instruction_pointer
    stack,                \* VmState.stack, top is the last element
    parameter_stack,      \* VmState.parameter_stack
    error,                \* VmState.error: NoError or an ExpressionError
    variables,            \* ctx.state(): ident -> Value or Absent
    target,               \* ctx.target(): path -> Value or Absent
    result,               \* what interpret returned: Pending while in the loop
    dispatched,           \* the instruction dispatched last: opcode, primitives, position
    effects,              \* host-context bookkeeping: what the invocation did to its
                          \*   host last, at which position, and where it did before
    returned,             \* get_target bookkeeping: the (target, slot) pairs it returned
    self_kind,            \* find_at_path: self, the Kind searched
    lookup,               \* find_at_path: path, its segments
    segment_index,        \* find_at_path: how many segments the loop has taken
    kind,                 \* find_at_path: the loop's `kind`
    or_null,              \* find_at_path: the loop's `or_null`
    found,                \* find_at_path: what it returned, Searching while in the loop
    trail,                \* find_at_path bookkeeping: the Kinds segments were applied to
    reached,              \* find_at_path bookkeeping: the Kind the path led to, before
                          \*   it is joined with null (<<>> while there is none)
    invocations           \* the invocations that share the container (SpecShared):
                          \*   for each its VmState, host context and result, and the
                          \*   host context it was given

\* The state of the container and of one invocation, and the state beside them.
machine == <<instructions, jumps, values, targets, phase, instruction_pointer, stack,
             parameter_stack, error, variables, target, result, dispatched, effects>>
beside == <<returned, self_kind, lookup, segment_index, kind, or_null, found, trail, reached,
            invocations>>

vars == <<machine, beside>>

\* ---------------------------------------------------------------- bounds

\* Slots of the instruction stream that follow the stored program, as input.
MaxInstr == 4
\* Largest jump offset, element count and span position drawn as an operand.
MaxJump == 2
MaxCount == 2
MaxSpan == 1
\* Slots a builder may write (SpecBuild).
MaxBuild == 6
\* Segments of a path given to find_at_path.
MaxPath == 2

\* usize::MAX, the placeholder emit_jump writes; stands for 2^64 - 1.
UsizeMax == 2147483647

\* ---------------------------------------------------------------- values

Null == [t |-> "Null", v |-> 0]
Boolean(b) == [t |-> "Boolean", v |-> b]
Integer(n) == [t |-> "Integer", v |-> n]
Float(n) == [t |-> "Float", v |-> n]          \* the float n.0
Bytes(s) == [t |-> "Bytes", v |-> s]
Array(a) == [t |-> "Array", v |-> a]
Object(o) == [t |-> "Object", v |-> o]        \* o: a function from its keys

\* Option::None of a store lookup.
Absent == [t |-> "Absent", v |-> 0]

IsNumber(x) == x.t \in {"Integer", "Float"}

\* ExpressionError::Error { message, .. } and its Display form.
NoError == [kind |-> "None", message |-> ""]
Error(msg) == [kind |-> "Error", message |-> msg]
to_string(err) == err.message

\* Result of a value operation.
Ok(x) == [ok |-> TRUE, value |-> x, err |-> NoError]
Err(msg) == [ok |-> FALSE, value |-> Null, err |-> Error(msg)]

\* Numeric operands of one type; the result keeps the type.
SameNumber(l, r) == IsNumber(l) /\ l.t = r.t

try_add(l, r) ==
    IF SameNumber(l, r) THEN Ok([t |-> l.t, v |-> l.v + r.v])
    ELSE Err("can't add type " \o l.t \o " and " \o r.t)

try_sub(l, r) ==
    IF SameNumber(l, r) THEN Ok([t |-> l.t, v |-> l.v - r.v])
    ELSE Err("can't subtract type " \o l.t \o " and " \o r.t)

try_mul(l, r) ==
    IF SameNumber(l, r) THEN Ok([t |-> l.t, v |-> l.v * r.v])
    ELSE Err("can't multiply type " \o l.t \o " and " \o r.t)

Abs(n) == IF n < 0 THEN 0 - n ELSE n
\* Truncating quotient and remainder, as the machine computes them.
Quot(a, b) == (IF (a < 0) = (b < 0) THEN 1 ELSE -1) * (Abs(a) \div Abs(b))
Remainder(a, b) == a - b * Quot(a, b)

try_div(l, r) ==
    IF ~SameNumber(l, r) THEN Err("can't divide type " \o l.t \o " and " \o r.t)
    ELSE IF r.v = 0 THEN Err("can't divide by zero")
    ELSE Ok([t |-> l.t, v |-> Quot(l.v, r.v)])

try_rem(l, r) ==
    IF ~SameNumber(l, r)
    THEN Err("can't calculate remainder of type " \o l.t \o " and " \o r.t)
    ELSE IF r.v = 0 THEN Err("can't calculate remainder dividing by zero")
    ELSE Ok([t |-> l.t, v |-> Remainder(l.v, r.v)])

\* Object x Object; right keys overwrite left.
try_merge(l, r) ==
    IF l.t = "Object" /\ r.t = "Object"
    THEN Ok(Object([k \in (DOMAIN l.v) \cup (DOMAIN r.v) |->
                      IF k \in DOMAIN r.v THEN r.v[k] ELSE l.v[k]]))
    ELSE Err("can't merge type " \o l.t \o " and " \o r.t)

try_gt(l, r) ==
    IF SameNumber(l, r) THEN Ok(Boolean(l.v > r.v))
    ELSE Err("can't compare " \o l.t \o " > " \o r.t)

try_ge(l, r) ==
    IF SameNumber(l, r) THEN Ok(Boolean(l.v >= r.v))
    ELSE Err("can't compare " \o l.t \o " >= " \o r.t)

try_lt(l, r) ==
    IF SameNumber(l, r) THEN Ok(Boolean(l.v < r.v))
    ELSE Err("can't compare " \o l.t \o " < " \o r.t)

try_le(l, r) ==
    IF SameNumber(l, r) THEN Ok(Boolean(l.v <= r.v))
    ELSE Err("can't compare " \o l.t \o " <= " \o r.t)

\* Lossy equality: Integer and Float compare by number, the rest structurally.
eq_lossy(l, r) ==
    IF IsNumber(l) /\ IsNumber(r) THEN l.v = r.v ELSE l = r

\* The value operation behind each guarded binary opcode (interpret's dispatch).
GuardedOps == {"Add", "Subtract", "Multiply", "Divide", "Rem", "Merge",
               "Greater", "GreaterEqual", "Less", "LessEqual"}

ValueOp(op, l, r) ==
    CASE op = "Add" -> try_add(l, r)
      [] op = "Subtract" -> try_sub(l, r)
      [] op = "Multiply" -> try_mul(l, r)
      [] op = "Divide" -> try_div(l, r)
      [] op = "Rem" -> try_rem(l, r)
      [] op = "Merge" -> try_merge(l, r)
      [] op = "Greater" -> try_gt(l, r)
      [] op = "GreaterEqual" -> try_ge(l, r)
      [] op = "Less" -> try_lt(l, r)
      [] op = "LessEqual" -> try_le(l, r)

\* ------------------------------------------------------------- container

\* Instruction::OpCode and Instruction::Primitive.
OpCode(c) == [tag |-> "OpCode", arg |-> c]
Primitive(n) == [tag |-> "Primitive", arg |-> n]
\* What a fetch finds past the end of the stream.
EndOfStream == [tag |-> "End", arg |-> 0]

OpCodes == {"Abort", "Return", "Constant", "Negate", "Add", "Subtract", "Multiply",
            "Divide", "Rem", "Merge", "Not", "Greater", "GreaterEqual", "Less",
            "LessEqual", "NotEqual", "Equal", "Pop", "ClearError", "JumpIfFalse",
            "JumpIfTrue", "JumpIfNotErr", "Jump", "SetPathInfallible", "SetPath",
            "GetPath", "Call", "CreateArray", "CreateObject", "EmptyParameter",
            "MoveParameter", "MoveStatic"}

JumpOps == {"JumpIfFalse", "JumpIfTrue", "JumpIfNotErr", "Jump"}

\* Primitives that follow each opcode in the stream, as interpret fetches them.
Arity(op) ==
    CASE op \in {"SetPathInfallible", "Call"} -> 3
      [] op = "Abort" -> 2
      [] op \in JumpOps \cup {"Constant", "SetPath", "GetPath", "CreateArray",
                              "CreateObject", "MoveStatic"} -> 1
      [] OTHER -> 0

\* Variable: External(path), Internal(ident, Option<path>), Stack(path), None.
\* A path is a sequence of field names.
External(path) == [tag |-> "External", ident |-> "", some |-> TRUE, path |-> path]
Internal(ident) == [tag |-> "Internal", ident |-> ident, some |-> FALSE, path |-> <<>>]
InternalAt(ident, path) == [tag |-> "Internal", ident |-> ident, some |-> TRUE, path |-> path]
StackVar(path) == [tag |-> "Stack", ident |-> "", some |-> TRUE, path |-> path]
NoneVar == [tag |-> "None", ident |-> "", some |-> FALSE, path |-> <<>>]

\* The identifiers of the variable store.
Idents == {"a", "b"}

\* The function registry: identifier and declared parameters (TRUE: required).
fns == << [identifier |-> "f", parameters |-> <<TRUE>>],
          [identifier |-> "g", parameters |-> <<TRUE, FALSE>>] >>

\* Vm.static_params: opaque compile-time arguments.
static_params == << "static0" >>

\* The container interpreted under Spec.
EmptyObject == Object([k \in {} |-> Null])
SpecValues == << Integer(1), Integer(0), Null, Boolean(TRUE), Boolean(FALSE),
                 Bytes("k"), Object([k \in {"k"} |-> Integer(1)]), Float(1) >>
SpecTargets == << Internal("a"), Internal("b"), External(<<"x">>), NoneVar,
                  InternalAt("a", <<"k">>), StackVar(<<"k">>) >>

\* ------------------------------------------------------------------ paths

RECURSIVE get_by_path(_, _)
\* Value::get_by_path: the value under the path, or Absent.
get_by_path(value, path) ==
    IF path = <<>> THEN value
    ELSE IF value.t = "Object" /\ Head(path) \in DOMAIN value.v
         THEN get_by_path(value.v[Head(path)], Tail(path))
         ELSE Absent

RECURSIVE at_path(_, _)
\* Value::at_path: the objects that hold the value at the path.
at_path(value, path) ==
    IF path = <<>> THEN value
    ELSE Object([k \in {Head(path)} |-> at_path(value, Tail(path))])

RECURSIVE insert_by_path(_, _, _)
\* Value::insert_by_path: the stored value with `value` put at the path.
insert_by_path(stored, path, value) ==
    IF path = <<>> THEN value
    ELSE IF stored.t = "Object"
         THEN Object([k \in (DOMAIN stored.v) \cup {Head(path)} |->
                 IF k = Head(path)
                 THEN (IF k \in DOMAIN stored.v
                       THEN insert_by_path(stored.v[k], Tail(path), value)
                       ELSE at_path(value, Tail(path)))
                 ELSE stored.v[k]])
         ELSE at_path(value, path)

\* ---------------------------------------------------------------- results

\* What interpret returns: Ok(value), Err(message), Err(Abort{span}), or a panic.
Pending == [kind |-> "Pending", value |-> Null, message |-> "", span |-> <<0, 0>>]
OkRes(x) == [kind |-> "Ok", value |-> x, message |-> "", span |-> <<0, 0>>]
ErrRes(msg) == [kind |-> "Err", value |-> Null, message |-> msg, span |-> <<0, 0>>]
AbortRes(start, end) == [kind |-> "Abort", value |-> Null, message |-> "", span |-> <<start, end>>]
PanicRes(msg) == [kind |-> "Panic", value |-> Null, message |-> msg, span |-> <<0, 0>>]

\* The machine state an arm works on: VmState, the host context, the result.
\*   [ip, stack, pstack, error, ctx: [variables, target, log], res]
\* ctx.log: the calls made on the host context in this turn of the loop.
Fail(s, msg) == [s EXCEPT !.res = ErrRes(msg)]
Panic(s, msg) == [s EXCEPT !.res = PanicRes(msg)]

Top(st) == st[Len(st)]
Pop(st) == SubSeq(st, 1, Len(st) - 1)

\* ----------------------------------------------------------------- VmState

\* The slot at absolute position i of a stream whose first slot is at `base`.
Slot(code, base, i) ==
    IF i - base + 1 \in 1..Len(code) THEN code[i - base + 1] ELSE EndOfStream

\* VmState::next_primitive succeeds at position i.
IsPrim(code, base, i) == Slot(code, base, i).tag = "Primitive"
PrimAt(code, base, i) == Slot(code, base, i).arg

\* usize addition: wraps at 2^64 (UsizeMax + 1) when overflow checks are off.
WrapAdd(a, b) == IF a > UsizeMax - b THEN a - (UsizeMax - b) - 1 ELSE a + b
Overflows(a, b) == a > UsizeMax - b

\* Variant: the offset added to the position of the jump's opcode.
AddJump_from_opcode(s, jump, env) ==
    IF Overflows(s.ip - 2, jump) /\ env.overflow_checks
    THEN Panic(s, "attempt to add with overflow")
    ELSE [s EXCEPT !.ip = WrapAdd(s.ip - 2, jump)]

\* instruction_pointer += jump
AddJump(s, jump, env) ==
    IF Overflows(s.ip, jump) /\ env.overflow_checks
    THEN Panic(s, "attempt to add with overflow")
    ELSE [s EXCEPT !.ip = WrapAdd(s.ip, jump)]

\* ------------------------------------------------------------ host context

\* Target::insert and Target::get of the event, a Value addressed by paths.
target_insert(event, path, value) == insert_by_path(event, path, value)
target_get(event, path) == get_by_path(event, path)

\* A call on the host: "write" and "read" of the variable store, "insert" and
\* "get" on the event target, "call" of a function.
Effect(call, ident) == [call |-> call, ident |-> ident]
Logged(ctx, call, ident) == [ctx EXCEPT !.log = Append(@, Effect(call, ident))]

set_variable(ctx, variable, value, host_ok) ==
    CASE variable.tag = "Internal" /\ ~variable.some ->
            [ok |-> TRUE,
             ctx |-> Logged([ctx EXCEPT !.variables[variable.ident] = value],
                            "write", variable.ident)]
      [] variable.tag = "Internal" /\ variable.some ->
            [ok |-> TRUE,
             ctx |-> Logged([ctx EXCEPT !.variables[variable.ident] =
                               IF @ # Absent THEN insert_by_path(@, variable.path, value)
                               ELSE at_path(value, variable.path)],
                            "write", variable.ident)]
      [] variable.tag = "External" ->
            IF host_ok
            THEN [ok |-> TRUE,
                  ctx |-> Logged([ctx EXCEPT !.target =
                                     target_insert(@, variable.path, value)],
                                 "insert", "")]
            ELSE [ok |-> FALSE, ctx |-> Logged(ctx, "insert", "")]
      [] OTHER -> [ok |-> TRUE, ctx |-> ctx]

\* Variant: truthiness instead of identity with Boolean(true).
is_true_truthy(object) == object \notin {Boolean(FALSE), Null}

is_true(object) == object = Boolean(TRUE)

\* ------------------------------------------------------------ opcode arms
\* Each arm takes the state with the pointer already past the opcode.

OpAbort(code, base, s) ==
    IF ~IsPrim(code, base, s.ip) \/ ~IsPrim(code, base, s.ip + 1)
    THEN Fail(s, "expected primitive")
    ELSE [s EXCEPT !.ip = @ + 2,
                   !.res = AbortRes(PrimAt(code, base, s.ip), PrimAt(code, base, s.ip + 1))]

\* Variant: Return that requires a value on the stack.
OpReturn_requires_value(s) ==
    IF s.stack = <<>> THEN Fail(s, "stack underflow")
    ELSE [s EXCEPT !.stack = Pop(@), !.res = OkRes(Top(s.stack))]

\* Variant: Return that hands a pending error to the caller.
OpReturn_reports_error(s) ==
    IF s.error # NoError THEN Fail(s, to_string(s.error))
    ELSE IF s.stack = <<>> THEN [s EXCEPT !.res = OkRes(Null)]
    ELSE [s EXCEPT !.stack = Pop(@), !.res = OkRes(Top(s.stack))]

OpReturn(s) ==
    IF s.stack = <<>> THEN [s EXCEPT !.res = OkRes(Null)]
    ELSE [s EXCEPT !.stack = Pop(@), !.res = OkRes(Top(s.stack))]

\* VmState::read_constant, then push.
OpConstant(code, base, s) ==
    IF ~IsPrim(code, base, s.ip) THEN Fail(s, "expected primitive")
    ELSE LET idx == PrimAt(code, base, s.ip) IN
         IF idx >= Len(values) THEN Fail(s, "constant slot out of range")
         ELSE [s EXCEPT !.ip = @ + 1, !.stack = Append(@, values[idx + 1])]

\* Variant: Negate that records a mismatch in the error register and goes on.
OpNegate_recoverable(s) ==
    IF s.stack = <<>> THEN [s EXCEPT !.error = Error("Negating nothing")]
    ELSE IF Top(s.stack).t = "Float"
         THEN [s EXCEPT !.stack = Append(Pop(@), Float(Top(s.stack).v * (-1)))]
         ELSE [s EXCEPT !.stack = Pop(@), !.error = Error("Negating non number")]

OpNegate(s) ==
    IF s.stack = <<>> THEN Fail(s, "Negating nothing")
    ELSE IF Top(s.stack).t = "Float"
         THEN [s EXCEPT !.stack = Append(Pop(@), Float(Top(s.stack).v * (-1)))]
         ELSE Fail([s EXCEPT !.stack = Pop(@)], "Negating non number")

OpNot(s) ==
    IF s.stack = <<>> THEN Fail(s, "Notting nothing")
    ELSE IF Top(s.stack).t = "Boolean"
         THEN [s EXCEPT !.stack = Append(Pop(@), Boolean(~Top(s.stack).v))]
         ELSE Fail([s EXCEPT !.stack = Pop(@)], "Notting non boolean")

\* Variant: binary_op without the test of the error register.
binary_op_unguarded(s, op) ==
    IF s.stack = <<>> THEN Fail(s, "stack underflow")
    ELSE IF Len(s.stack) < 2 THEN Fail([s EXCEPT !.stack = Pop(@)], "stack underflow")
    ELSE LET r == ValueOp(op, Top(Pop(s.stack)), Top(s.stack))
         IN IF r.ok
            THEN [s EXCEPT !.stack = Append(Pop(Pop(@)), r.value)]
            ELSE [s EXCEPT !.stack = Pop(Pop(@)), !.error = r.err]

\* Variant: binary_op that peeks its operands and pops them only on success.
binary_op_keeps_operands(s, op) ==
    IF s.error = NoError
    THEN IF s.stack = <<>> THEN Fail(s, "stack underflow")
         ELSE IF Len(s.stack) < 2 THEN Fail([s EXCEPT !.stack = Pop(@)], "stack underflow")
         ELSE LET r == ValueOp(op, Top(Pop(s.stack)), Top(s.stack))
              IN IF r.ok
                 THEN [s EXCEPT !.stack = Append(Pop(Pop(@)), r.value)]
                 ELSE [s EXCEPT !.error = r.err]
    ELSE s

\* Variant: binary_op that takes the pending error out of the register.
binary_op_takes_error(s, op) ==
    IF s.error = NoError
    THEN IF s.stack = <<>> THEN Fail(s, "stack underflow")
         ELSE IF Len(s.stack) < 2 THEN Fail([s EXCEPT !.stack = Pop(@)], "stack underflow")
         ELSE LET r == ValueOp(op, Top(Pop(s.stack)), Top(s.stack))
              IN IF r.ok
                 THEN [s EXCEPT !.stack = Append(Pop(Pop(@)), r.value)]
                 ELSE [s EXCEPT !.stack = Pop(Pop(@)), !.error = r.err]
    ELSE [s EXCEPT !.error = NoError]

binary_op(s, op) ==
    IF s.error = NoError
    THEN IF s.stack = <<>> THEN Fail(s, "stack underflow")
         ELSE IF Len(s.stack) < 2 THEN Fail([s EXCEPT !.stack = Pop(@)], "stack underflow")
         ELSE LET rhs == Top(s.stack)
                  lhs == Top(Pop(s.stack))
                  r == ValueOp(op, lhs, rhs)
              IN IF r.ok
                 THEN [s EXCEPT !.stack = Append(Pop(Pop(@)), r.value)]
                 ELSE [s EXCEPT !.stack = Pop(Pop(@)), !.error = r.err]
    ELSE s

\* Variant: Equal and NotEqual behind the test of the error register.
OpEqual_guarded(s, negate) ==
    IF s.error # NoError THEN s
    ELSE IF s.stack = <<>> THEN Fail(s, "stack underflow")
    ELSE IF Len(s.stack) < 2 THEN Fail([s EXCEPT !.stack = Pop(@)], "stack underflow")
    ELSE [s EXCEPT !.stack = Append(Pop(Pop(@)),
                        Boolean(eq_lossy(Top(Pop(s.stack)), Top(s.stack)) # negate))]

\* NotEqual (negate = TRUE) and Equal.
OpEqual(s, negate) ==
    IF s.stack = <<>> THEN Fail(s, "stack underflow")
    ELSE IF Len(s.stack) < 2 THEN Fail([s EXCEPT !.stack = Pop(@)], "stack underflow")
    ELSE LET rhs == Top(s.stack)
             lhs == Top(Pop(s.stack))
         IN [s EXCEPT !.stack = Append(Pop(Pop(@)), Boolean(eq_lossy(lhs, rhs) # negate))]

OpPop(s) == IF s.stack = <<>> THEN s ELSE [s EXCEPT !.stack = Pop(@)]

OpClearError(s) == [s EXCEPT !.error = NoError]

OpJumpIfFalse(code, base, s, env) ==
    IF ~IsPrim(code, base, s.ip) THEN Fail(s, "expected primitive")
    ELSE LET jump == PrimAt(code, base, s.ip)
             s1 == [s EXCEPT !.ip = @ + 1]
         IN IF s.stack = <<>> THEN Fail(s1, "stack underflow")
            ELSE IF ~is_true(Top(s.stack)) THEN AddJump(s1, jump, env) ELSE s1

OpJumpIfTrue(code, base, s, env) ==
    IF ~IsPrim(code, base, s.ip) THEN Fail(s, "expected primitive")
    ELSE LET jump == PrimAt(code, base, s.ip)
             s1 == [s EXCEPT !.ip = @ + 1]
         IN IF s.stack = <<>> THEN Fail(s1, "stack underflow")
            ELSE IF is_true(Top(s.stack)) THEN AddJump(s1, jump, env) ELSE s1

\* Variant: JumpIfNotErr that takes the error out of the register.
OpJumpIfNotErr_takes(code, base, s, env) ==
    IF ~IsPrim(code, base, s.ip) THEN Fail(s, "expected primitive")
    ELSE LET jump == PrimAt(code, base, s.ip)
             s1 == [s EXCEPT !.ip = @ + 1, !.error = NoError]
         IN IF s.error = NoError THEN AddJump(s1, jump, env) ELSE s1

OpJumpIfNotErr(code, base, s, env) ==
    IF ~IsPrim(code, base, s.ip) THEN Fail(s, "expected primitive")
    ELSE LET jump == PrimAt(code, base, s.ip)
             s1 == [s EXCEPT !.ip = @ + 1]
         IN IF s.error = NoError THEN AddJump(s1, jump, env) ELSE s1

OpJump(code, base, s, env) ==
    IF ~IsPrim(code, base, s.ip) THEN Fail(s, "expected primitive")
    ELSE AddJump([s EXCEPT !.ip = @ + 1], PrimAt(code, base, s.ip), env)

\* Variant: SetPath that does not push the value back.
OpSetPath_pops(code, base, s, env) ==
    IF ~IsPrim(code, base, s.ip) THEN Fail(s, "expected primitive")
    ELSE LET idx == PrimAt(code, base, s.ip)
             s1 == [s EXCEPT !.ip = @ + 1]
         IN IF idx >= Len(targets) THEN Panic(s1, "index out of bounds")
            ELSE IF s.stack = <<>> THEN Fail(s1, "stack underflow")
            ELSE LET w == set_variable(s.ctx, targets[idx + 1], Top(s.stack), env.host_fail # 1)
                 IN IF ~w.ok THEN Fail([s1 EXCEPT !.stack = Pop(@)], "host error")
                    ELSE [s1 EXCEPT !.ctx = w.ctx, !.stack = Pop(@)]

\* env.host_fail = k: the k-th call of the host target in this step fails (0: none).
OpSetPath(code, base, s, env) ==
    IF ~IsPrim(code, base, s.ip) THEN Fail(s, "expected primitive")
    ELSE LET idx == PrimAt(code, base, s.ip)
             s1 == [s EXCEPT !.ip = @ + 1]
         IN IF idx >= Len(targets) THEN Panic(s1, "index out of bounds")
            ELSE IF s.stack = <<>> THEN Fail(s1, "stack underflow")
            ELSE LET value == Top(s.stack)
                     w == set_variable(s.ctx, targets[idx + 1], value, env.host_fail # 1)
                 IN IF ~w.ok THEN Fail([s1 EXCEPT !.stack = Pop(@), !.ctx = w.ctx], "host error")
                    ELSE [s1 EXCEPT !.ctx = w.ctx, !.stack = Append(Pop(@), value)]

\* Variant: the error arm with the two stores exchanged.
SetPathInfallibleErr_swapped(s, variable, errvar, default, env) ==
    LET err == Bytes(to_string(s.error))
        s1 == [s EXCEPT !.error = NoError]
        w1 == set_variable(s.ctx, variable, err, env.host_fail # 1)
        w2 == set_variable(w1.ctx, errvar, default,
                           env.host_fail # (IF variable.tag = "External" THEN 2 ELSE 1))
    IN IF ~w1.ok THEN Fail(s1, "host error")
       ELSE IF ~w2.ok THEN Fail([s1 EXCEPT !.ctx = w1.ctx], "host error")
       ELSE [s1 EXCEPT !.ctx = w2.ctx, !.stack = Append(@, err)]

\* Variant: the error arm reading the register without taking the error.
SetPathInfallibleErr_keeps(s, variable, errvar, default, env) ==
    LET err == Bytes(to_string(s.error))
        w1 == set_variable(s.ctx, variable, default, env.host_fail # 1)
        w2 == set_variable(w1.ctx, errvar, err,
                           env.host_fail # (IF variable.tag = "External" THEN 2 ELSE 1))
    IN IF ~w1.ok THEN Fail(s, "host error")
       ELSE IF ~w2.ok THEN Fail([s EXCEPT !.ctx = w1.ctx], "host error")
       ELSE [s EXCEPT !.ctx = w2.ctx, !.stack = Append(@, err)]

\* Variant: the value arm without the store of Null into the error target.
SetPathInfallibleOk_no_null(s, variable, errvar, env) ==
    IF s.stack = <<>> THEN Fail(s, "stack underflow")
    ELSE LET value == Top(s.stack)
             w1 == set_variable(s.ctx, variable, value, env.host_fail # 1)
         IN IF ~w1.ok THEN Fail([s EXCEPT !.stack = Pop(@)], "host error")
            ELSE [s EXCEPT !.ctx = w1.ctx, !.stack = Append(Pop(@), value)]

\* Variant: the error arm storing to the error target first.
SetPathInfallibleErr_error_first(s, variable, errvar, default, env) ==
    LET err == Bytes(to_string(s.error))
        s1 == [s EXCEPT !.error = NoError]
        w1 == set_variable(s.ctx, errvar, err, env.host_fail # 1)
        w2 == set_variable(w1.ctx, variable, default,
                           env.host_fail # (IF errvar.tag = "External" THEN 2 ELSE 1))
    IN IF ~w1.ok THEN Fail([s1 EXCEPT !.ctx = w1.ctx], "host error")
       ELSE IF ~w2.ok THEN Fail([s1 EXCEPT !.ctx = w2.ctx], "host error")
       ELSE [s1 EXCEPT !.ctx = w2.ctx, !.stack = Append(@, err)]

\* The two arms of `match state.error.take()`.
SetPathInfallibleErr(s, variable, errvar, default, env) ==
    LET err == Bytes(to_string(s.error))
        s1 == [s EXCEPT !.error = NoError]
        w1 == set_variable(s.ctx, variable, default, env.host_fail # 1)
        w2 == set_variable(w1.ctx, errvar, err,
                           env.host_fail # (IF variable.tag = "External" THEN 2 ELSE 1))
    IN IF ~w1.ok THEN Fail([s1 EXCEPT !.ctx = w1.ctx], "host error")
       ELSE IF ~w2.ok THEN Fail([s1 EXCEPT !.ctx = w2.ctx], "host error")
       ELSE [s1 EXCEPT !.ctx = w2.ctx, !.stack = Append(@, err)]

SetPathInfallibleOk(s, variable, errvar, env) ==
    IF s.stack = <<>> THEN Fail(s, "stack underflow")
    ELSE LET value == Top(s.stack)
             w1 == set_variable(s.ctx, variable, value, env.host_fail # 1)
             w2 == set_variable(w1.ctx, errvar, Null,
                                env.host_fail # (IF variable.tag = "External" THEN 2 ELSE 1))
         IN IF ~w1.ok THEN Fail([s EXCEPT !.stack = Pop(@), !.ctx = w1.ctx], "host error")
            ELSE IF ~w2.ok THEN Fail([s EXCEPT !.stack = Pop(@), !.ctx = w2.ctx], "host error")
            ELSE [s EXCEPT !.ctx = w2.ctx, !.stack = Append(Pop(@), value)]

OpSetPathInfallible(code, base, s, env) ==
    IF ~IsPrim(code, base, s.ip) THEN Fail(s, "expected primitive")
    ELSE IF PrimAt(code, base, s.ip) >= Len(targets) THEN Panic(s, "index out of bounds")
    ELSE IF ~IsPrim(code, base, s.ip + 1) THEN Fail(s, "expected primitive")
    ELSE IF PrimAt(code, base, s.ip + 1) >= Len(targets) THEN Panic(s, "index out of bounds")
    ELSE IF ~IsPrim(code, base, s.ip + 2) THEN Fail(s, "expected primitive")
    ELSE IF PrimAt(code, base, s.ip + 2) >= Len(values) THEN Panic(s, "index out of bounds")
    ELSE LET variable == targets[PrimAt(code, base, s.ip) + 1]
             errvar == targets[PrimAt(code, base, s.ip + 1) + 1]
             default == values[PrimAt(code, base, s.ip + 2) + 1]
             s1 == [s EXCEPT !.ip = @ + 3]
         IN IF s.error # NoError
            THEN SetPathInfallibleErr(s1, variable, errvar, default, env)
            ELSE SetPathInfallibleOk(s1, variable, errvar, env)

OrNull(x) == IF x = Absent THEN Null ELSE x

\* Variant: GetPath that reads the top of the stack for a Stack target without
\* popping it.
OpGetPath_peeks(code, base, s, env) ==
    IF ~IsPrim(code, base, s.ip) THEN Fail(s, "expected primitive")
    ELSE LET idx == PrimAt(code, base, s.ip)
             s1 == [s EXCEPT !.ip = @ + 1]
         IN IF idx >= Len(targets) THEN Panic(s1, "index out of bounds")
            ELSE LET variable == targets[idx + 1] IN
              CASE variable.tag = "External" ->
                     IF env.host_fail = 1
                     THEN Fail([s1 EXCEPT !.ctx = Logged(@, "get", "")], "host error")
                     ELSE [s1 EXCEPT !.ctx = Logged(@, "get", ""),
                                     !.stack = Append(@, OrNull(target_get(s.ctx.target,
                                                                           variable.path)))]
                [] variable.tag = "Internal" ->
                     LET stored == s.ctx.variables[variable.ident]
                         value == IF stored = Absent THEN Null
                                  ELSE IF variable.some
                                       THEN OrNull(get_by_path(stored, variable.path))
                                       ELSE stored
                     IN [s1 EXCEPT !.ctx = Logged(@, "read", variable.ident),
                                   !.stack = Append(@, value)]
                [] variable.tag = "None" -> [s1 EXCEPT !.stack = Append(@, Null)]
                [] variable.tag = "Stack" ->
                     IF s.stack = <<>> THEN Fail(s1, "stack underflow")
                     ELSE [s1 EXCEPT !.stack =
                             Append(@, OrNull(get_by_path(Top(s.stack), variable.path)))]

OpGetPath(code, base, s, env) ==
    IF ~IsPrim(code, base, s.ip) THEN Fail(s, "expected primitive")
    ELSE LET idx == PrimAt(code, base, s.ip)
             s1 == [s EXCEPT !.ip = @ + 1]
         IN IF idx >= Len(targets) THEN Panic(s1, "index out of bounds")
            ELSE LET variable == targets[idx + 1] IN
              CASE variable.tag = "External" ->
                     IF env.host_fail = 1
                     THEN Fail([s1 EXCEPT !.ctx = Logged(@, "get", "")], "host error")
                     ELSE [s1 EXCEPT !.ctx = Logged(@, "get", ""),
                                     !.stack = Append(@, OrNull(target_get(s.ctx.target,
                                                                           variable.path)))]
                [] variable.tag = "Internal" ->
                     LET stored == s.ctx.variables[variable.ident]
                         value == IF stored = Absent THEN Null
                                  ELSE IF variable.some
                                       THEN OrNull(get_by_path(stored, variable.path))
                                       ELSE stored
                     IN [s1 EXCEPT !.ctx = Logged(@, "read", variable.ident),
                                   !.stack = Append(@, value)]
                [] variable.tag = "None" -> [s1 EXCEPT !.stack = Append(@, Null)]
                [] variable.tag = "Stack" ->
                     IF s.stack = <<>> THEN Fail(s1, "stack underflow")
                     ELSE [s1 EXCEPT !.stack =
                             Append(Pop(@), OrNull(get_by_path(Top(s.stack), variable.path)))]

\* The last n values of the stack, in stack order (arr after arr.reverse()).
LastN(st, n) == SubSeq(st, Len(st) - n + 1, Len(st))
DropN(st, n) == SubSeq(st, 1, Len(st) - n)

\* Variant: CreateArray without arr.reverse(): the values in the order popped.
OpCreateArray_no_reverse(code, base, s) ==
    IF ~IsPrim(code, base, s.ip) THEN Fail(s, "expected primitive")
    ELSE LET count == PrimAt(code, base, s.ip)
             s1 == [s EXCEPT !.ip = @ + 1]
             popped == [i \in 1..count |-> s.stack[Len(s.stack) - i + 1]]
         IN IF count > Len(s.stack) THEN Fail([s1 EXCEPT !.stack = <<>>], "stack underflow")
            ELSE [s1 EXCEPT !.stack = Append(DropN(@, count), Array(popped))]

OpCreateArray(code, base, s) ==
    IF ~IsPrim(code, base, s.ip) THEN Fail(s, "expected primitive")
    ELSE LET count == PrimAt(code, base, s.ip)
             s1 == [s EXCEPT !.ip = @ + 1]
         IN IF count > Len(s.stack) THEN Fail([s1 EXCEPT !.stack = <<>>], "stack underflow")
            ELSE [s1 EXCEPT !.stack = Append(DropN(@, count), Array(LastN(s.stack, count)))]

RECURSIVE CreateObjectLoop(_, _, _)
\* The loop of CreateObject: `count` more pairs to pop from `st` into `object`.
\* [kind: "ok" | "underflow" | "panic", stack, object]
CreateObjectLoop(st, count, object) ==
    IF count = 0 THEN [kind |-> "ok", stack |-> st, object |-> object]
    ELSE IF Len(st) < 2 THEN [kind |-> "underflow", stack |-> <<>>, object |-> object]
    ELSE LET value == Top(st)
             key == Top(Pop(st))
         IN IF key.t # "Bytes" THEN [kind |-> "panic", stack |-> Pop(Pop(st)), object |-> object]
            ELSE CreateObjectLoop(Pop(Pop(st)), count - 1,
                    [k \in (DOMAIN object) \cup {key.v} |->
                        IF k = key.v THEN value ELSE object[k]])

OpCreateObject(code, base, s) ==
    IF ~IsPrim(code, base, s.ip) THEN Fail(s, "expected primitive")
    ELSE LET count == PrimAt(code, base, s.ip)
             s1 == [s EXCEPT !.ip = @ + 1]
             r == CreateObjectLoop(s.stack, count, [k \in {} |-> Null])
         IN CASE r.kind = "underflow" -> Fail([s1 EXCEPT !.stack = r.stack], "stack underflow")
              [] r.kind = "panic" -> Panic([s1 EXCEPT !.stack = r.stack], "unwrap on an Err value")
              [] OTHER -> [s1 EXCEPT !.stack = Append(r.stack, Object(r.object))]

\* Parameter-stack slots: Option<VmArgument>.
ParamNone == [tag |-> "None", v |-> Null, slot |-> 0]
ParamValue(x) == [tag |-> "Value", v |-> x, slot |-> 0]
ParamAny(i) == [tag |-> "Any", v |-> Null, slot |-> i]

\* VmArgumentList::check_arguments: every required parameter has an argument.
check_arguments(parameters, args) ==
    \A i \in 1..Len(parameters) : parameters[i] => args[i].tag # "None"

\* What the host function returns when it succeeds: its first argument's value.
FnValue(args) == IF args # <<>> /\ args[1].tag = "Value" THEN args[1].v ELSE Null

CallError(identifier, span_start, span_end, message) ==
    Error("function call error for \"" \o identifier \o "\" at ("
          \o ToString(span_start) \o ":" \o ToString(span_end) \o "): " \o message)

\* Variant: Call that drains the first N slots of the parameter stack.
OpCall_drains_front(code, base, s, env) ==
    IF \E k \in 0..2 : ~IsPrim(code, base, s.ip + k) THEN Fail(s, "expected primitive")
    ELSE LET function_id == PrimAt(code, base, s.ip)
             span_start == PrimAt(code, base, s.ip + 1)
             span_end == PrimAt(code, base, s.ip + 2)
             s1 == [s EXCEPT !.ip = @ + 3]
         IN IF function_id >= Len(fns) THEN Panic(s1, "index out of bounds")
            ELSE LET function == fns[function_id + 1]
                     n == Len(function.parameters)
                 IN IF Len(s.pstack) < n THEN Panic(s1, "drain range out of bounds")
                    ELSE LET args == SubSeq(s.pstack, 1, n)
                             s2 == [s1 EXCEPT !.pstack = SubSeq(@, n + 1, Len(@))]
                         IN IF ~check_arguments(function.parameters, args)
                            THEN [s2 EXCEPT !.error = CallError(function.identifier,
                                     span_start, span_end, "missing required argument")]
                            ELSE LET s3 == [s2 EXCEPT !.ctx =
                                                  Logged(@, "call", function.identifier)]
                                 IN CASE env.call = "ok" ->
                                        [s3 EXCEPT !.stack = Append(@, FnValue(args))]
                                   [] env.call = "error" ->
                                        [s3 EXCEPT !.error = CallError(function.identifier,
                                            span_start, span_end, "function failed")]
                                   [] OTHER ->
                                        Panic(s3, "abort errors must only be defined by abort statement")

\* Variant: Call that is skipped while an error is pending.
OpCall_guarded(code, base, s, env) ==
    IF \E k \in 0..2 : ~IsPrim(code, base, s.ip + k) THEN Fail(s, "expected primitive")
    ELSE IF s.error # NoError THEN [s EXCEPT !.ip = @ + 3]
    ELSE LET function_id == PrimAt(code, base, s.ip)
             span_start == PrimAt(code, base, s.ip + 1)
             span_end == PrimAt(code, base, s.ip + 2)
             s1 == [s EXCEPT !.ip = @ + 3]
         IN IF function_id >= Len(fns) THEN Panic(s1, "index out of bounds")
            ELSE LET function == fns[function_id + 1]
                     n == Len(function.parameters)
                 IN IF Len(s.pstack) < n THEN Panic(s1, "drain range out of bounds")
                    ELSE LET args == LastN(s.pstack, n)
                             s2 == [s1 EXCEPT !.pstack = DropN(@, n)]
                         IN IF ~check_arguments(function.parameters, args)
                            THEN [s2 EXCEPT !.error = CallError(function.identifier,
                                     span_start, span_end, "missing required argument")]
                            ELSE LET s3 == [s2 EXCEPT !.ctx =
                                                  Logged(@, "call", function.identifier)]
                                 IN CASE env.call = "ok" ->
                                        [s3 EXCEPT !.stack = Append(@, FnValue(args))]
                                   [] env.call = "error" ->
                                        [s3 EXCEPT !.error = CallError(function.identifier,
                                            span_start, span_end, "function failed")]
                                   [] OTHER ->
                                        Panic(s3, "abort errors must only be defined by abort statement")

\* env.call: what the host function does, "ok" | "error" | "abort".
OpCall(code, base, s, env) ==
    IF \E k \in 0..2 : ~IsPrim(code, base, s.ip + k) THEN Fail(s, "expected primitive")
    ELSE LET function_id == PrimAt(code, base, s.ip)
             span_start == PrimAt(code, base, s.ip + 1)
             span_end == PrimAt(code, base, s.ip + 2)
             s1 == [s EXCEPT !.ip = @ + 3]
         IN IF function_id >= Len(fns) THEN Panic(s1, "index out of bounds")
            ELSE LET function == fns[function_id + 1]
                     n == Len(function.parameters)
                 IN IF Len(s.pstack) < n THEN Panic(s1, "drain range out of bounds")
                    ELSE LET args == LastN(s.pstack, n)
                             s2 == [s1 EXCEPT !.pstack = DropN(@, n)]
                         IN IF ~check_arguments(function.parameters, args)
                            THEN [s2 EXCEPT !.error = CallError(function.identifier,
                                     span_start, span_end, "missing required argument")]
                            ELSE LET s3 == [s2 EXCEPT !.ctx =
                                                  Logged(@, "call", function.identifier)]
                                 IN CASE env.call = "ok" ->
                                        [s3 EXCEPT !.stack = Append(@, FnValue(args))]
                                   [] env.call = "error" ->
                                        [s3 EXCEPT !.error = CallError(function.identifier,
                                            span_start, span_end, "function failed")]
                                   [] OTHER ->
                                        Panic(s3, "abort errors must only be defined by abort statement")

OpEmptyParameter(s) == [s EXCEPT !.pstack = Append(@, ParamNone)]

OpMoveParameter(s) ==
    IF s.stack = <<>> THEN [s EXCEPT !.pstack = Append(@, ParamNone)]
    ELSE [s EXCEPT !.stack = Pop(@), !.pstack = Append(@, ParamValue(Top(s.stack)))]

OpMoveStatic(code, base, s) ==
    IF ~IsPrim(code, base, s.ip) THEN Fail(s, "expected primitive")
    ELSE LET idx == PrimAt(code, base, s.ip)
             s1 == [s EXCEPT !.ip = @ + 1]
         IN IF idx >= Len(static_params) THEN Panic(s1, "index out of bounds")
            ELSE [s1 EXCEPT !.pstack = Append(@, ParamAny(idx))]

\* One turn of interpret's loop: state.next()?, then the arm of the opcode.
Exec(code, base, s, env) ==
    LET first == Slot(code, base, s.ip)
        op == first.arg
        s1 == [s EXCEPT !.ip = @ + 1]
    IN IF first.tag # "OpCode" THEN Fail(s, "expected opcode")
       ELSE CASE op = "Abort" -> OpAbort(code, base, s1)
              [] op = "Return" -> OpReturn(s1)
              [] op = "Constant" -> OpConstant(code, base, s1)
              [] op = "Negate" -> OpNegate(s1)
              [] op = "Not" -> OpNot(s1)
              [] op \in GuardedOps -> binary_op(s1, op)
              [] op = "NotEqual" -> OpEqual(s1, TRUE)
              [] op = "Equal" -> OpEqual(s1, FALSE)
              [] op = "Pop" -> OpPop(s1)
              [] op = "ClearError" -> OpClearError(s1)
              [] op = "JumpIfFalse" -> OpJumpIfFalse(code, base, s1, env)
              [] op = "JumpIfTrue" -> OpJumpIfTrue(code, base, s1, env)
              [] op = "JumpIfNotErr" -> OpJumpIfNotErr(code, base, s1, env)
              [] op = "Jump" -> OpJump(code, base, s1, env)
              [] op = "SetPath" -> OpSetPath(code, base, s1, env)
              [] op = "SetPathInfallible" -> OpSetPathInfallible(code, base, s1, env)
              [] op = "GetPath" -> OpGetPath(code, base, s1, env)
              [] op = "CreateArray" -> OpCreateArray(code, base, s1)
              [] op = "CreateObject" -> OpCreateObject(code, base, s1)
              [] op = "Call" -> OpCall(code, base, s1, env)
              [] op = "EmptyParameter" -> OpEmptyParameter(s1)
              [] op = "MoveParameter" -> OpMoveParameter(s1)
              [] op = "MoveStatic" -> OpMoveStatic(code, base, s1)

\* -------------------------------------------------------------------- Kind

\* A Kind: the primitive shapes it may be, and the collection it may be as an
\* object and as an array.  A Collection: whether the shape is there, the known
\* entries in key order, and the unknown descriptor (none, a Kind, or infinite).
NoUnknown == [tag |-> "None", kinds |-> <<>>]
ExactUnknown(k) == [tag |-> "Exact", kinds |-> <<k>>]
InfiniteUnknown == [tag |-> "Infinite", kinds |-> <<>>]

NoCollection == [some |-> FALSE, known |-> <<>>, unknown |-> NoUnknown]
Collection(known, unknown) == [some |-> TRUE, known |-> known, unknown |-> unknown]
Entry(key, k) == [key |-> key, kind |-> k]

Shape(bits) == [bits |-> bits, object |-> NoCollection, array |-> NoCollection]
ObjectKind(known, unknown) ==
    [bits |-> {}, object |-> Collection(known, unknown), array |-> NoCollection]
ArrayKind(known, unknown) ==
    [bits |-> {}, object |-> NoCollection, array |-> Collection(known, unknown)]

\* Kind::is_exact: exactly one shape.  Kind::or_null, Kind::contains_null.
is_exact(k) ==
    Cardinality(k.bits) + (IF k.object.some THEN 1 ELSE 0)
                        + (IF k.array.some THEN 1 ELSE 0) = 1
OrNullKind(k) == [k EXCEPT !.bits = @ \cup {"null"}]
contains_null(k) == "null" \in k.bits

\* Collection::known().get(key) and contains_key(key).
contains_key(known, key) == \E i \in DOMAIN known : known[i].key = key
KnownGet(known, key) == known[CHOOSE i \in DOMAIN known : known[i].key = key].kind

\* Unknown::to_kind of an infinite descriptor: any value, collections of any.
InfiniteKind ==
    [bits |-> {"bytes", "integer", "float", "boolean", "timestamp", "regex", "null"},
     object |-> Collection(<<>>, InfiniteUnknown),
     array |-> Collection(<<>>, InfiniteUnknown)]

\* InnerKind, and None.
NoInner == [tag |-> "None", kinds |-> <<>>]
ExactInner(k) == [tag |-> "Exact", kinds |-> <<k>>]
InfiniteInner(k) == [tag |-> "Infinite", kinds |-> <<k>>]

\* Variant: a lookup that never falls back to the unknown descriptor.
GetFrom_known_only(collection, key) ==
    IF ~collection.some THEN NoInner
    ELSE IF contains_key(collection.known, key)
         THEN ExactInner(KnownGet(collection.known, key))
         ELSE NoInner

\* What both lookups do with a collection.
GetFrom(collection, key) ==
    IF ~collection.some THEN NoInner
    ELSE IF contains_key(collection.known, key)
         THEN ExactInner(KnownGet(collection.known, key))
         ELSE CASE collection.unknown.tag = "None" -> NoInner
                [] collection.unknown.tag = "Exact" -> ExactInner(collection.unknown.kinds[1])
                [] OTHER -> InfiniteInner(InfiniteKind)

get_field_from_object(k, field) == GetFrom(k.object, field)
get_element_from_array(k, index) == GetFrom(k.array, index)

\* Segments of a path.
Field(name) == [tag |-> "Field", name |-> name, fields |-> <<>>, index |-> 0]
Coalesce(fields) == [tag |-> "Coalesce", name |-> "", fields |-> fields, index |-> 0]
Index(i) == [tag |-> "Index", name |-> "", fields |-> <<>>, index |-> i]

\* What find_at_path returns.
Searching == [tag |-> "Searching", kinds |-> <<>>]
OkSome(k) == [tag |-> "Some", kinds |-> <<k>>]
OkNone == [tag |-> "None", kinds |-> <<>>]
NegativeIndexPath == [tag |-> "NegativeIndexPath", kinds |-> <<>>]

\* Variant: the Kind joined with null whatever or_null is.
Widened_always(k, widen) == OrNullKind(k)

\* if or_null { kind.or_null() } else { kind }
Widened(k, widen) == IF widen THEN OrNullKind(k) ELSE k

\* ------------------------------------------------------------ state machine

\* The machine state as the arms take it.
Machine == [ip |-> instruction_pointer, stack |-> stack, pstack |-> parameter_stack,
            error |-> error,
            ctx |-> [variables |-> variables, target |-> target, log |-> <<>>],
            res |-> result]

\* What a turn of the loop leaves to the host and the build: which call of the
\* host target fails (SetPath, SetPathInfallible, GetPath), what the host
\* function does (Call), and whether usize overflow panics or wraps (a jump by
\* an offset that overflows the pointer).
Envs(code, base) ==
    LET first == Slot(code, base, instruction_pointer)
        op == IF first.tag = "OpCode" THEN first.arg ELSE ""
        jump == IF IsPrim(code, base, instruction_pointer + 1)
                THEN PrimAt(code, base, instruction_pointer + 1) ELSE 0
    IN [host_fail : CASE op \in {"SetPath", "GetPath"} -> 0..1
                      [] op = "SetPathInfallible" -> 0..2
                      [] OTHER -> {0},
        call : IF op = "Call" THEN {"ok", "error", "abort"} ELSE {"ok"},
        overflow_checks : IF op \in JumpOps /\ Overflows(instruction_pointer + 2, jump)
                          THEN BOOLEAN ELSE {TRUE}]

\* No call on the host yet.  calls: the calls the instruction dispatched last
\* made on the host, in order; at: the position of the opcode that called the
\* host last (-1: none); before: the position of the one that did before it.
NoEffects == [calls |-> <<>>, at |-> -1, before |-> -1]

\* The bookkeeping after a turn of the loop that made the calls in `log`.
Recorded(log) ==
    IF log = <<>> THEN [effects EXCEPT !.calls = <<>>]
    ELSE [calls |-> log, at |-> instruction_pointer, before |-> effects.at]

NoDispatch == [op |-> "", prims |-> <<>>, at |-> 0, pending |-> FALSE, depth |-> 0,
               chain |-> FALSE, chained |-> FALSE, wrapped |-> FALSE]

\* The instruction a stream holds at position i, as `dispatched` records it, with
\* what the state was when it was dispatched: whether an error was pending, the
\* depth of the operand stack, (chain) whether the opcodes dispatched last are a
\* guarded binary opcode that failed followed only by guarded binary opcodes,
\* (chained) whether those before it were, and (wrapped) whether the addition
\* of a jump offset to the pointer has overflowed and wrapped, now or before.
Fetched(code, base, i, t) ==
    LET first == Slot(code, base, i)
        op == IF first.tag = "OpCode" THEN first.arg ELSE ""
        n == IF op = "" THEN 0 ELSE Arity(op)
    IN [op |-> op,
        prims |-> [k \in 1..n |-> IF IsPrim(code, base, i + k)
                                  THEN PrimAt(code, base, i + k) ELSE -1],
        at |-> i,
        pending |-> error # NoError,
        depth |-> Len(stack),
        chain |-> /\ op \in GuardedOps
                  /\ t.res = Pending
                  /\ \/ error = NoError /\ t.error # NoError
                     \/ dispatched.chain,
        chained |-> dispatched.chain,
        wrapped |-> \/ dispatched.wrapped
                    \/ /\ op \in JumpOps /\ IsPrim(code, base, i + 1)
                       /\ Overflows(i + 2, PrimAt(code, base, i + 1))
                       /\ t.res = Pending
                       /\ t.ip = WrapAdd(i + 2, PrimAt(code, base, i + 1))]

\* The state after one turn of the loop over `code`.
Step(code, base, env) ==
    LET t == Exec(code, base, Machine, env) IN
    /\ instruction_pointer' = t.ip
    /\ stack' = t.stack
    /\ parameter_stack' = t.pstack
    /\ error' = t.error
    /\ variables' = t.ctx.variables
    /\ target' = t.ctx.target
    /\ result' = t.res
    /\ phase' = IF t.res = Pending THEN "run" ELSE "done"
    /\ dispatched' = Fetched(code, base, instruction_pointer, t)
    /\ effects' = Recorded(t.ctx.log)

\* VmState::new and a host context with an empty store and an empty event.
FreshState ==
    /\ instruction_pointer = 0
    /\ stack = <<>>
    /\ parameter_stack = <<>>
    /\ error = NoError
    /\ variables = [i \in Idents |-> Absent]
    /\ target = EmptyObject
    /\ result = Pending
    /\ dispatched = NoDispatch
    /\ effects = NoEffects

\* Vm::write_chunk and Vm::write_primitive, on the instruction vector.
write_chunk(instrs, code) == Append(instrs, OpCode(code))
write_primitive(instrs, code) == Append(instrs, Primitive(code))

RECURSIVE WritePrimitives(_, _)
WritePrimitives(instrs, prims) ==
    IF prims = <<>> THEN instrs
    ELSE WritePrimitives(write_primitive(instrs, Head(prims)), Tail(prims))

RECURSIVE Compile(_, _)
\* The stream a compiler writes for a list of <<opcode, primitives>>.
Compile(instrs, listing) ==
    IF listing = <<>> THEN instrs
    ELSE Compile(WritePrimitives(write_chunk(instrs, Head(listing)[1]), Head(listing)[2]),
                 Tail(listing))

\* Stored programs, over the container of Spec (constants 0: 1, 1: 0, 2: Null;
\* targets 0: a, 1: b).
DivideByZero == << <<"Constant", <<0>> >>, <<"Constant", <<1>> >>, <<"Divide", <<>> >> >>
ProgEmpty == <<>>
\* 1 / 0: leaves an error pending over an empty stack.
ProgFailed == Compile(<<>>, DivideByZero)
\* 1, 1, 1 / 0: leaves an error pending over two operands.
ProgFailedDeep == Compile(<<>>, << <<"Constant", <<0>> >>, <<"Constant", <<0>> >> >> \o DivideByZero)
\* ok, err = 1 / 0 with default Null, then Return.
ProgRecover == Compile(<<>>, DivideByZero \o
                   << <<"SetPathInfallible", <<0, 1, 2>> >>, <<"Return", <<>> >> >>)
\* a = b = constants[0], then Return.
ProgChained == Compile(<<>>, << <<"Constant", <<0>> >>, <<"SetPath", <<1>> >>,
                                <<"SetPath", <<0>> >>, <<"Return", <<>> >> >>)
\* a = constants[k], then Return.
ProgAssign(k) == Compile(<<>>, << <<"Constant", <<k>> >>, <<"SetPath", <<0>> >>,
                                  <<"Return", <<>> >> >>)
\* constants[k] on the stack.
ProgPushed(k) == Compile(<<>>, << <<"Constant", <<k>> >> >>)

\* 1 / 0, then two guarded opcodes.
ProgFailedChain == Compile(<<>>, DivideByZero \o << <<"Add", <<>> >>, <<"Less", <<>> >> >>)

\* Return alone, and constants[k] returned.
ProgReturn == Compile(<<>>, << <<"Return", <<>> >> >>)
ProgRoundTrip(k) == Compile(<<>>, << <<"Constant", <<k>> >>, <<"Return", <<>> >> >>)

\* The pairs ("k", constants[j]) then ("k", constants[k]) pushed, CreateObject(2),
\* Return.
ProgDuplicate(j, k) ==
    Compile(<<>>, << <<"Constant", <<5>> >>, <<"Constant", <<j>> >>,
                     <<"Constant", <<5>> >>, <<"Constant", <<k>> >>,
                     <<"CreateObject", <<2>> >>, <<"Return", <<>> >> >>)

\* Parameter stacks for a call: (1, true), (1, true, absent), and (1) with the
\* error of 1 / 0 pending.
ProgParams == Compile(<<>>, << <<"Constant", <<0>> >>, <<"MoveParameter", <<>> >>,
                               <<"Constant", <<3>> >>, <<"MoveParameter", <<>> >> >>)
ProgParamsAbsent == Compile(ProgParams, << <<"EmptyParameter", <<>> >> >>)
ProgParamsFailed == Compile(ProgFailed, << <<"Constant", <<0>> >>,
                                           <<"MoveParameter", <<>> >> >>)
\* 1 / 0, then f(1) at span 0:1.
ProgCalled == Compile(ProgParamsFailed, << <<"Call", <<0, 0, 1>> >> >>)

\* a = constants[0], Pop, then a jump by 2^64 - 7: past the offset the pointer
\* is 7, and the sum wraps to 0 where overflow is not checked.
ProgLoop == Compile(<<>>, << <<"Constant", <<0>> >>, <<"SetPath", <<0>> >>,
                             <<"Pop", <<>> >>, <<"Jump", <<UsizeMax - 6>> >> >>)

\* a = constants[6], the object {k: 1}, which stays on the stack.
ProgStored == Compile(<<>>, << <<"Constant", <<6>> >>, <<"SetPath", <<0>> >> >>)
\* -1 and !1 over the integer 1, each followed by its recovery.
Recovery == << <<"ClearError", <<>> >>, <<"SetPathInfallible", <<0, 1, 2>> >>,
               <<"Return", <<>> >> >>
ProgNegated == Compile(<<>>, << <<"Constant", <<0>> >>, <<"Negate", <<>> >> >> \o Recovery)
ProgNotted == Compile(<<>>, << <<"Constant", <<0>> >>, <<"Not", <<>> >> >> \o Recovery)

Programs == {ProgEmpty, ProgLoop, ProgStored, ProgFailed, ProgFailedDeep, ProgFailedChain, ProgRecover,
             ProgChained, ProgReturn, ProgDuplicate(0, 1), ProgDuplicate(0, 0),
             ProgParams, ProgParamsAbsent, ProgParamsFailed, ProgCalled}
            \cup {ProgAssign(k) : k \in 0..(Len(SpecValues) - 1)}
            \cup {ProgRoundTrip(k) : k \in 0..(Len(SpecValues) - 1)}
            \cup {ProgPushed(0), ProgNegated, ProgNotted}

\* The windows of the input at the pointer: a well-formed instruction, or one of
\* the malformed shapes (end of stream, a primitive where an opcode is expected,
\* an opcode or the end where a primitive is expected).
OperandSets(op) ==
    CASE op = "Constant" -> << 0..Len(SpecValues) >>
      [] op \in JumpOps -> << 0..MaxJump >>
      [] op \in {"SetPath", "GetPath"} -> << 0..Len(SpecTargets) >>
      [] op \in {"CreateArray", "CreateObject"} -> << 0..MaxCount >>
      [] op = "MoveStatic" -> << 0..Len(static_params) >>
      [] op = "Abort" -> << 0..MaxSpan, 0..MaxSpan >>
      [] op = "Call" -> << 0..Len(fns), 0..MaxSpan, 0..MaxSpan >>
      [] op = "SetPathInfallible" ->
            << 0..Len(SpecTargets), 0..Len(SpecTargets), 0..Len(SpecValues) >>
      [] OTHER -> << >>

RECURSIVE Operands(_)
\* The primitive sequences drawn from a sequence of operand sets.
Operands(sets) ==
    IF sets = <<>> THEN {<<>>}
    ELSE {<<Primitive(p)>> \o w : p \in Head(sets), w \in Operands(Tail(sets))}

Windows ==
    UNION {{<<OpCode(op)>> \o w : w \in Operands(OperandSets(op))} : op \in OpCodes}
    \cup {<<>>, <<Primitive(0)>>}
    \cup {<<OpCode(op)>> : op \in {o \in OpCodes : Arity(o) > 0}}
    \cup {<<OpCode(op), OpCode("Return")>> : op \in {o \in OpCodes : Arity(o) > 0}}

\* Nothing beside the machine has happened.
Idle ==
    /\ returned = {}
    /\ self_kind = Shape({"bytes"})
    /\ lookup = <<>>
    /\ segment_index = 0
    /\ kind = self_kind
    /\ or_null = FALSE
    /\ found = Searching
    /\ trail = <<>>
    /\ reached = <<>>
    /\ invocations = <<>>

Init ==
    /\ Idle
    /\ instructions \in Programs
    /\ jumps = <<>>
    /\ values = SpecValues
    /\ targets = SpecTargets
    /\ phase = "run"
    /\ FreshState

\* The stream from the pointer on: the rest of the stored program, or past it
\* an input window that fits the MaxInstr slots that follow it (none but the
\* empty one where a jump has left the pointer past them).
Streams ==
    IF instruction_pointer < Len(instructions)
    THEN {SubSeq(instructions, instruction_pointer + 1, Len(instructions))}
    ELSE {w \in Windows : \/ w = <<>>
                          \/ Len(w) <= Len(instructions) + MaxInstr - instruction_pointer}

\* One turn of interpret's loop.
Dispatch ==
    /\ phase = "run"
    /\ \E w \in Streams : \E env \in Envs(w, instruction_pointer) :
          Step(w, instruction_pointer, env)
    /\ UNCHANGED <<instructions, jumps, values, targets>>
    /\ UNCHANGED beside

Next == Dispatch

Spec == Init /\ [][Next]_vars

\* Streams for the jumps: input after nothing, after a value, after a failed
\* division, and the loop.
InitJumps ==
    /\ Idle
    /\ instructions \in {ProgEmpty, ProgPushed(0), ProgFailed, ProgLoop}
    /\ jumps = <<>>
    /\ values = SpecValues
    /\ targets = SpecTargets
    /\ phase = "run"
    /\ FreshState

\* The loop of interpret takes its next turn: nothing suspends it, and every
\* call of the host returns.
SpecJumps == InitJumps /\ [][Next]_vars /\ WF_vars(Dispatch)

\* ----------------------------------------------------------------- builder

\* Variant: patch_jump measuring the offset from the jump's own slot.
patch_jump_from_slot(instrs, offset) ==
    [instrs EXCEPT ![offset + 1] = Primitive(Len(instrs) - offset)]

\* Vm::write_primitive_at, Vm::emit_jump (the stream, and the slot it returns)
\* and Vm::patch_jump, on the instruction vector.
write_primitive_at(instrs, pos, code) == [instrs EXCEPT ![pos + 1] = Primitive(code)]

emit_jump(instrs, instruction) ==
    LET written == write_primitive(write_chunk(instrs, instruction), UsizeMax)
    IN [instructions |-> written, slot |-> Len(written) - 1]

patch_jump(instrs, offset) ==
    write_primitive_at(instrs, offset, Len(instrs) - offset - 1)

\* What a compiler under construction appends between its jumps: constants
\* 0 (the integer 1) and 3 (true), and Pop.
BuildOps == {"Constant", "Pop"}
BuildPrims == {0, 3}

InitBuild ==
    /\ Idle
    /\ instructions = <<>>
    /\ jumps = <<>>
    /\ values = SpecValues
    /\ targets = SpecTargets
    /\ phase = "compile"
    /\ FreshState

Building(instrs) ==
    /\ phase = "compile"
    /\ Len(instrs) <= MaxBuild
    /\ instructions' = instrs
    /\ UNCHANGED <<values, targets, phase, instruction_pointer, stack, parameter_stack,
                   error, variables, target, result, dispatched, effects>>
    /\ UNCHANGED beside

WriteChunk ==
    \E op \in BuildOps : Building(write_chunk(instructions, op)) /\ UNCHANGED jumps

WritePrimitive ==
    \E n \in BuildPrims : Building(write_primitive(instructions, n)) /\ UNCHANGED jumps

\* `jumps` keeps, for each slot emit_jump returned, whether patch_jump was
\* called on it and how long the stream was at the last such call.
EmitJump ==
    \E op \in JumpOps :
        LET e == emit_jump(instructions, op) IN
        /\ Building(e.instructions)
        /\ jumps' = Append(jumps, [slot |-> e.slot, patched |-> FALSE, len |-> 0])

PatchJump ==
    \E j \in DOMAIN jumps :
        /\ Building(patch_jump(instructions, jumps[j].slot))
        /\ jumps' = [jumps EXCEPT ![j] = [slot |-> @.slot, patched |-> TRUE,
                                          len |-> Len(instructions)]]

\* Vm::interpret is entered: VmState::new.
Interpret ==
    /\ phase = "compile"
    /\ phase' = "run"
    /\ UNCHANGED <<instructions, jumps, values, targets, instruction_pointer, stack,
                   parameter_stack, error, variables, target, result, dispatched, effects>>
    /\ UNCHANGED beside

\* One turn of interpret's loop over the stream that was built.
DispatchBuilt ==
    /\ phase = "run"
    /\ \E env \in Envs(instructions, 0) : Step(instructions, 0, env)
    /\ UNCHANGED <<instructions, jumps, values, targets>>
    /\ UNCHANGED beside

NextBuild ==
    \/ WriteChunk
    \/ WritePrimitive
    \/ EmitJump
    \/ PatchJump
    \/ Interpret
    \/ DispatchBuilt

SpecBuild == InitBuild /\ [][NextBuild]_vars

\* ------------------------------------------------------------ target table

\* Variant: get_target without the search for an equal entry.
get_target_appends(tgts, variable) ==
    [targets |-> Append(tgts, variable), slot |-> Len(tgts)]

\* Vm::get_target: the table after the call and the slot it returns.
get_target(tgts, variable) ==
    LET present == {i \in DOMAIN tgts : tgts[i] = variable}
    IN IF present # {}
       THEN [targets |-> tgts, slot |-> (CHOOSE i \in present : \A j \in present : i <= j) - 1]
       ELSE [targets |-> Append(tgts, variable), slot |-> Len(tgts)]

\* The descriptors a compiler asks slots for.
TargetPool == {SpecTargets[i] : i \in DOMAIN SpecTargets}

\* Vm::new: an empty container.
InitTable ==
    /\ instructions = <<>>
    /\ jumps = <<>>
    /\ values = <<>>
    /\ targets = <<>>
    /\ phase = "compile"
    /\ FreshState
    /\ Idle

GetTarget ==
    \E variable \in TargetPool :
        LET r == get_target(targets, variable) IN
        /\ phase = "compile"
        /\ targets' = r.targets
        /\ returned' = returned \cup {[target |-> variable, slot |-> r.slot]}
        /\ UNCHANGED <<self_kind, lookup, segment_index, kind, or_null, found, trail, reached,
                       invocations>>
        /\ UNCHANGED <<instructions, jumps, values, phase, instruction_pointer, stack,
                       parameter_stack, error, variables, target, result, dispatched, effects>>

NextTable == GetTarget

SpecTable == InitTable /\ [][NextTable]_vars

\* -------------------------------------------------------------- find_at_path

\* What an arm of the match on the segment does: return `found`, or go on
\* with the Kind in `next`.
Returns(outcome) == [found |-> outcome, next |-> <<>>, reached |-> <<>>]
Descends(k) == [found |-> Searching, next |-> <<k>>, reached |-> <<>>]
ReturnsKind(k, widen) ==
    [found |-> OkSome(Widened(k, widen)), next |-> <<>>, reached |-> <<k>>]

\* Variant: an infinite Kind is searched on like an exact one.
MatchInner_descends(inner, widen) ==
    IF inner.tag = "None" THEN Returns(OkNone) ELSE Descends(inner.kinds[1])

\* The three outcomes of a lookup, as each arm matches them.
MatchInner(inner, widen) ==
    CASE inner.tag = "None" -> Returns(OkNone)
      [] inner.tag = "Exact" -> Descends(inner.kinds[1])
      [] OTHER -> ReturnsKind(inner.kinds[1], widen)

FieldArm(k, segment, widen) ==
    MatchInner(get_field_from_object(k, segment.name), widen)

\* Variant: with no listed field among the known keys, the first listed field
\* is looked up as a Field segment would, unknown descriptor included.
CoalesceArm_falls_back(k, segment, widen) ==
    IF ~k.object.some THEN Returns(OkNone)
    ELSE LET hits == {i \in DOMAIN segment.fields :
                        contains_key(k.object.known, segment.fields[i])}
             first == IF hits = {} THEN 1
                      ELSE CHOOSE i \in hits : \A j \in hits : i <= j
         IN MatchInner(get_field_from_object(k, segment.fields[first]), widen)

CoalesceArm(k, segment, widen) ==
    IF ~k.object.some THEN Returns(OkNone)
    ELSE LET hits == {i \in DOMAIN segment.fields :
                        contains_key(k.object.known, segment.fields[i])}
         IN IF hits = {} THEN Returns(OkNone)
            ELSE LET field == segment.fields[CHOOSE i \in hits : \A j \in hits : i <= j]
                 IN MatchInner(get_field_from_object(k, field), widen)

IndexArm(k, segment, widen) ==
    IF segment.index < 0 THEN Returns(NegativeIndexPath)
    ELSE MatchInner(get_element_from_array(k, segment.index), widen)

RECURSIVE Walk(_, _, _)
\* The loop over the segments left, from the Kind k with or_null = widen.
Walk(k, rest, widen) ==
    IF rest = <<>> THEN OkSome(Widened(k, widen))
    ELSE LET w == widen \/ ~is_exact(k)
             arm == CASE Head(rest).tag = "Field" -> FieldArm(k, Head(rest), w)
                      [] Head(rest).tag = "Coalesce" -> CoalesceArm(k, Head(rest), w)
                      [] OTHER -> IndexArm(k, Head(rest), w)
         IN IF arm.found # Searching THEN arm.found
            ELSE Walk(arm.next[1], Tail(rest), w)

\* Kind::find_at_path, as a function of the Kind and the path.
find_at_path(k, segments) ==
    IF segments = <<>> THEN OkSome(k) ELSE Walk(k, segments, FALSE)

\* The Kinds searched: primitive shapes, collections over them, and collections
\* over those, each collection with or without known entries and an unknown
\* descriptor, exact or joined with null.
Leaves == {Shape({"integer"}), Shape({"null"}), Shape({"integer", "null"}),
           Shape({"integer", "bytes"})}
Sibling == Shape({"boolean"})

Collections(children, both, unknowns, key, other) ==
    {Collection(known, unknown) :
        known \in {<<>>} \cup {<<Entry(key, c)>> : c \in children}
                  \cup {<<Entry(other, Sibling), Entry(key, c)>> : c \in both},
        unknown \in unknowns}

Over(children, both, unknowns) ==
    LET plain == {[bits |-> {}, object |-> o, array |-> NoCollection] :
                     o \in Collections(children, both, unknowns, "foo", "bar")}
                 \cup {[bits |-> {}, object |-> NoCollection, array |-> a] :
                     a \in Collections(children, both, unknowns, 1, 0)}
    IN plain \cup {OrNullKind(k) : k \in plain}

Mids == Over(Leaves, {}, {NoUnknown, ExactUnknown(Sibling), InfiniteUnknown})

Roots == Over(Leaves \cup Mids, Leaves,
              {NoUnknown, ExactUnknown(Shape({"regex", "null"})),
               ExactUnknown(ObjectKind(<<Entry("foo", Shape({"integer"}))>>, NoUnknown)),
               InfiniteUnknown})

KindInputs == Leaves \cup Roots

Segments == {Field("foo"), Field("bar"), Index(1), Index(2), Index(-1),
             Coalesce(<<"bar", "foo">>)}

RECURSIVE PathsOf(_)
PathsOf(n) ==
    IF n = 0 THEN {<<>>}
    ELSE LET shorter == PathsOf(n - 1)
         IN shorter \cup {Append(q, seg) : q \in {r \in shorter : Len(r) = n - 1},
                                           seg \in Segments}

InitFind ==
    /\ instructions = <<>>
    /\ jumps = <<>>
    /\ values = <<>>
    /\ targets = <<>>
    /\ phase = "compile"
    /\ FreshState
    /\ returned = {}
    /\ self_kind \in KindInputs
    /\ lookup \in PathsOf(MaxPath)
    /\ segment_index = 0
    /\ kind = self_kind
    /\ or_null = FALSE
    /\ found = Searching
    /\ trail = <<>>
    /\ reached = <<>>
    /\ invocations = <<>>

\* if path.is_root() { return Ok(Some(Borrowed(self))) }
RootPath ==
    /\ found = Searching /\ lookup = <<>>
    /\ found' = OkSome(self_kind)
    /\ reached' = <<self_kind>>
    /\ UNCHANGED <<machine, returned, self_kind, lookup, segment_index, kind, or_null, trail,
                   invocations>>

\* One turn of the loop over the segments, on a segment of the given tag.
TakeSegment(tag, arm) ==
    /\ found = Searching /\ segment_index < Len(lookup)
    /\ lookup[segment_index + 1].tag = tag
    /\ or_null' = (or_null \/ ~is_exact(kind))
    /\ found' = arm.found
    /\ kind' = IF arm.next = <<>> THEN kind ELSE arm.next[1]
    /\ segment_index' = segment_index + 1
    /\ trail' = Append(trail, kind)
    /\ reached' = arm.reached
    /\ UNCHANGED <<machine, returned, self_kind, lookup, invocations>>

FieldSegment ==
    TakeSegment("Field",
        FieldArm(kind, lookup[segment_index + 1], or_null \/ ~is_exact(kind)))

CoalesceSegment ==
    TakeSegment("Coalesce",
        CoalesceArm(kind, lookup[segment_index + 1], or_null \/ ~is_exact(kind)))

IndexSegment ==
    TakeSegment("Index",
        IndexArm(kind, lookup[segment_index + 1], or_null \/ ~is_exact(kind)))

\* Variant: the Kind reached is tested for exactness too.
PathEnd_tests_last ==
    /\ found = Searching /\ lookup # <<>> /\ segment_index = Len(lookup)
    /\ found' = OkSome(Widened(kind, or_null \/ ~is_exact(kind)))
    /\ reached' = <<kind>>
    /\ UNCHANGED <<machine, returned, self_kind, lookup, segment_index, kind, or_null, trail,
                   invocations>>

\* Past the loop: the Kind reached, joined with null if or_null.
PathEnd ==
    /\ found = Searching /\ lookup # <<>> /\ segment_index = Len(lookup)
    /\ found' = OkSome(Widened(kind, or_null))
    /\ reached' = <<kind>>
    /\ UNCHANGED <<machine, returned, self_kind, lookup, segment_index, kind, or_null, trail,
                   invocations>>

NextFind ==
    \/ RootPath
    \/ FieldSegment
    \/ CoalesceSegment
    \/ IndexSegment
    \/ PathEnd

SpecFind == InitFind /\ [][NextFind]_vars

\* -------------------------------------------------------- shared container

\* VmState::new, with the host context the caller gives.
NewState(ctx) ==
    [ip |-> 0, stack |-> <<>>, pstack |-> <<>>, error |-> NoError, ctx |-> ctx,
     res |-> Pending]

\* Host contexts: an empty store and event, and a store that holds a = 1 with
\* an event that holds x = true.
EmptyContext ==
    [variables |-> [i \in Idents |-> Absent], target |-> EmptyObject, log |-> <<>>]
Contexts ==
    {EmptyContext,
     [variables |-> [i \in Idents |-> IF i = "a" THEN Integer(1) ELSE Absent],
      target |-> Object([k \in {"x"} |-> Boolean(TRUE)]),
      log |-> <<>>]}

\* b = a, then the event's x returned.
ProgRead == Compile(<<>>, << <<"GetPath", <<0>> >>, <<"SetPath", <<1>> >>,
                             <<"GetPath", <<2>> >>, <<"Return", <<>> >> >>)

\* The host of the invocations that share a container: its target accepts
\* every call, its functions succeed, and the build checks overflow.
SharedEnv == [host_fail |-> 0, call |-> "ok", overflow_checks |-> TRUE]

RECURSIVE Run(_, _)
\* interpret run alone from the state s: its loop, to the return.
Run(code, s) ==
    IF s.res # Pending THEN s ELSE Run(code, Exec(code, 0, s, SharedEnv))

\* Variant: one VmState in the container, its stacks shared by the invocations.
Invoke_shared_state(all, i) ==
    LET t == Exec(instructions, 0, all[i].state, SharedEnv)
    IN [j \in DOMAIN all |->
          IF j = i THEN [all[j] EXCEPT !.state = t]
          ELSE [all[j] EXCEPT !.state.stack = t.stack, !.state.pstack = t.pstack]]

\* The invocations after invocation i took one turn of its loop: its own
\* VmState and host context, against the container.
Invoke(all, i) ==
    [all EXCEPT ![i].state = Exec(instructions, 0, @, SharedEnv)]

InitShared ==
    /\ instructions \in Programs \cup {ProgRead}
    /\ jumps = <<>>
    /\ values = SpecValues
    /\ targets = SpecTargets
    /\ phase = "run"
    /\ FreshState
    /\ returned = {}
    /\ self_kind = Shape({"bytes"})
    /\ lookup = <<>>
    /\ segment_index = 0
    /\ kind = self_kind
    /\ or_null = FALSE
    /\ found = Searching
    /\ trail = <<>>
    /\ reached = <<>>
    /\ \E c1 \in Contexts, c2 \in Contexts :
          invocations = << [state |-> NewState(c1), given |-> c1],
                           [state |-> NewState(c2), given |-> c2] >>

\* One turn of the loop of one of the invocations.
DispatchShared ==
    /\ \E i \in DOMAIN invocations :
          /\ invocations[i].state.res = Pending
          /\ invocations' = Invoke(invocations, i)
    /\ UNCHANGED <<machine, returned, self_kind, lookup, segment_index, kind, or_null,
                   found, trail, reached>>

NextShared == DispatchShared

SpecShared == InitShared /\ [][NextShared]_vars

\* ------------------------------------------------------------------ claims

\* The operands a binary opcode takes from the stack.
Rhs == Top(stack)
Lhs == Top(Pop(stack))

\* This step dispatches `op`.
Dispatches(op) == phase = "run" /\ dispatched'.op = op
DispatchesGuarded == phase = "run" /\ dispatched'.op \in GuardedOps

\* The k-th primitive of the instruction this step dispatches, and the table
\* entries it names.
Operand(k) == dispatched'.prims[k]
TargetOf(k) == targets[Operand(k) + 1]
ConstantOf(k) == values[Operand(k) + 1]

\* What a context holds at the place a variable descriptor names.
Storable(variable) == variable.tag \in {"Internal", "External"}
Stored(store, event, variable) ==
    CASE variable.tag = "Internal" /\ ~variable.some -> store[variable.ident]
      [] variable.tag = "Internal" /\ variable.some ->
            IF store[variable.ident] = Absent THEN Absent
            ELSE get_by_path(store[variable.ident], variable.path)
      [] variable.tag = "External" -> get_by_path(event, variable.path)
      [] OTHER -> Absent

IsPrefix(p, q) == Len(p) <= Len(q) /\ SubSeq(q, 1, Len(p)) = p
\* Two descriptors name places of which one contains the other.
Overlap(v1, v2) ==
    /\ Storable(v1) /\ Storable(v2) /\ v1.tag = v2.tag /\ v1.ident = v2.ident
    /\ IsPrefix(v1.path, v2.path) \/ IsPrefix(v2.path, v1.path)

\* C1: a guarded binary opcode dispatched while an error is pending changes
\* nothing but the instruction pointer, which advances by one: the operand
\* stack, the parameter stack, the error register and the host context are what
\* they were, and the loop goes on.
C1_GuardedSkip ==
    [][(DispatchesGuarded /\ error # NoError) =>
          /\ stack' = stack
          /\ parameter_stack' = parameter_stack
          /\ error' = error
          /\ variables' = variables /\ target' = target
          /\ instruction_pointer' = instruction_pointer + 1
          /\ result' = Pending]_vars

\* A guarded opcode was dispatched over two operands with an error pending.
C1_Witness ==
    /\ dispatched.op \in GuardedOps /\ dispatched.pending /\ dispatched.depth >= 2
    /\ Len(stack) = dispatched.depth /\ error # NoError /\ result = Pending

\* This step dispatches a guarded binary opcode whose value operation fails:
\* no error is pending and the stack holds both operands.
GuardedFails ==
    /\ DispatchesGuarded /\ error = NoError /\ Len(stack) >= 2
    /\ ~ValueOp(dispatched'.op, Lhs, Rhs).ok

\* C2 as stated: when the value operation of a guarded binary opcode fails, the
\* error register becomes set and the operand stack has the size it had.
C2_Original ==
    [][GuardedFails => error' # NoError /\ Len(stack') = Len(stack)]_vars

\* C2, amended: when the value operation of a guarded binary opcode fails, the
\* error register becomes set to the operation's error, both operands are gone
\* from the operand stack and nothing is pushed: the stack is two shorter.
C2_FailurePopsOperands ==
    [][GuardedFails =>
          /\ error' = ValueOp(dispatched'.op, Lhs, Rhs).err /\ error' # NoError
          /\ stack' = Pop(Pop(stack)) /\ Len(stack') = Len(stack) - 2
          /\ result' = Pending]_vars

\* A division by zero over a stack of four: the error is set, two values are left.
C2_Witness ==
    /\ dispatched.op = "Divide" /\ ~dispatched.pending /\ dispatched.depth = 4
    /\ error = Error("can't divide by zero") /\ Len(stack) = 2 /\ result = Pending

\* C3: after a guarded binary opcode that failed and any chain of guarded binary
\* opcodes, SetPathInfallible(ok, err, default) with ok and err naming two
\* distinct variables leaves constants[default] in ok and a non-empty string in
\* err.
C3_ErrorSuppression ==
    [][(/\ dispatched.chain /\ Dispatches("SetPathInfallible")
        /\ \A k \in 1..3 : Operand(k) >= 0
        /\ Operand(1) < Len(targets) /\ Operand(2) < Len(targets)
        /\ Operand(3) < Len(values)
        /\ TargetOf(1).tag = "Internal" /\ ~TargetOf(1).some
        /\ TargetOf(2).tag = "Internal" /\ ~TargetOf(2).some
        /\ TargetOf(1).ident # TargetOf(2).ident) =>
          /\ result' = Pending
          /\ variables'[TargetOf(1).ident] = ConstantOf(3)
          /\ variables'[TargetOf(2).ident].t = "Bytes"
          /\ Len(variables'[TargetOf(2).ident].v) > 0]_vars

\* SetPathInfallible ran after a failed division and two guarded opcodes.
C3_Witness ==
    /\ instructions = ProgFailedChain
    /\ dispatched.op = "SetPathInfallible" /\ dispatched.chained
    /\ dispatched.at = Len(ProgFailedChain) /\ dispatched.prims = <<1, 0, 3>>
    /\ variables["b"] = Boolean(TRUE)
    /\ variables["a"] = Bytes("can't divide by zero")

\* This step dispatches SetPathInfallible with operands that name table entries.
DispatchesInfallible ==
    /\ Dispatches("SetPathInfallible")
    /\ \A k \in 1..3 : Operand(k) >= 0
    /\ Operand(1) < Len(targets) /\ Operand(2) < Len(targets)
    /\ Operand(3) < Len(values)

\* The step ended the invocation on an error of the host target, which one of
\* the two descriptors names.
HostFailed(v1, v2) ==
    /\ result' = ErrRes("host error")
    /\ v1.tag = "External" \/ v2.tag = "External"

\* The host context changed at most where the two descriptors name a place.
OnlyStoredAt(v1, v2) ==
    /\ \A i \in Idents :
          (\A v \in {v1, v2} : ~(v.tag = "Internal" /\ v.ident = i))
             => variables'[i] = variables[i]
    /\ (\A v \in {v1, v2} : v.tag # "External") => target' = target

\* C4: SetPathInfallible(ok, err, default) dispatched with an error E pending
\* empties the error register, leaves constants[default] at ok (unless the
\* store to err, which comes second, covers it) and the display string of E at
\* err, and pushes that string on the operand stack, popping nothing; a store
\* the host target refuses ends the invocation instead.  And the program
\* Constant(1), Constant(0), Divide, SetPathInfallible(ok, err, Null), Return
\* returns the division error's string, with ok = Null and err = that string.
C4_InfallibleWithError ==
    /\ [][(DispatchesInfallible /\ error # NoError) =>
            IF result' = Pending
            THEN /\ error' = NoError
                 /\ stack' = Append(stack, Bytes(to_string(error)))
                 /\ instruction_pointer' = instruction_pointer + 4
                 /\ Storable(TargetOf(2)) =>
                       Stored(variables', target', TargetOf(2)) = Bytes(to_string(error))
                 /\ (Storable(TargetOf(1)) /\ ~Overlap(TargetOf(1), TargetOf(2))) =>
                       Stored(variables', target', TargetOf(1)) = ConstantOf(3)
                 /\ OnlyStoredAt(TargetOf(1), TargetOf(2))
            ELSE HostFailed(TargetOf(1), TargetOf(2))]_vars
    /\ []((instructions = ProgRecover /\ phase = "done") =>
            /\ result = OkRes(Bytes("can't divide by zero"))
            /\ variables["a"] = Null
            /\ variables["b"] = result.value)

\* The recovery program returned.
C4_Witness ==
    /\ instructions = ProgRecover /\ phase = "done" /\ dispatched.op = "Return"
    /\ result.kind = "Ok" /\ variables["b"] = result.value

\* C5: SetPathInfallible(ok, err, default) dispatched with no error pending over
\* a non-empty stack leaves the stack as it was (the top value v popped and
\* pushed back) and the error register empty, v at ok (unless the store to err
\* covers it) and Null at err; nothing else is stored, constants[default]
\* nowhere.
C5_InfallibleWithoutError ==
    [][(DispatchesInfallible /\ error = NoError /\ stack # <<>>) =>
          IF result' = Pending
          THEN /\ error' = NoError
               /\ stack' = stack
               /\ instruction_pointer' = instruction_pointer + 4
               /\ Storable(TargetOf(2)) =>
                     Stored(variables', target', TargetOf(2)) = Null
               /\ (Storable(TargetOf(1)) /\ ~Overlap(TargetOf(1), TargetOf(2))) =>
                     Stored(variables', target', TargetOf(1)) = Top(stack)
               /\ OnlyStoredAt(TargetOf(1), TargetOf(2))
          ELSE HostFailed(TargetOf(1), TargetOf(2))]_vars

\* SetPathInfallible(a, b, default 1) ran over the value 1 with no error pending.
C5_Witness ==
    /\ dispatched.op = "SetPathInfallible" /\ ~dispatched.pending
    /\ dispatched.depth = 1 /\ dispatched.prims = <<0, 1, 1>>
    /\ stack = <<Integer(1)>> /\ variables["a"] = Integer(1) /\ variables["b"] = Null
    /\ error = NoError /\ result = Pending

\* C6: the error register holds no error or one error, and a step that takes it
\* from set to empty dispatches ClearError, SetPathInfallible or JumpIfNotErr:
\* every other opcode leaves a set register set.
C6_ErrorRegister ==
    /\ [](error = NoError \/ (error.kind = "Error" /\ error = Error(error.message)))
    /\ [][(phase = "run" /\ error # NoError /\ error' = NoError) =>
            dispatched'.op \in {"ClearError", "SetPathInfallible", "JumpIfNotErr"}]_vars

\* ClearError emptied a set register.
C6_Witness ==
    dispatched.op = "ClearError" /\ dispatched.pending /\ error = NoError

\* This step dispatches JumpIfNotErr, with its offset, while an error is pending.
JumpIfNotErrPending ==
    Dispatches("JumpIfNotErr") /\ Operand(1) >= 0 /\ error # NoError

\* C7 as stated: JumpIfNotErr executed with an error pending consumes it: the
\* error register is empty after it.
C7_Original ==
    [][JumpIfNotErrPending => error' = NoError]_vars

\* C7, amended: a pending error suppresses guarded arithmetic until ClearError
\* or SetPathInfallible is executed.  JumpIfNotErr executed with an error
\* pending does not jump and leaves the error pending (only the pointer moves,
\* past the offset), and a guarded binary opcode that follows it is skipped.
C7_JumpIfNotErrKeepsError ==
    /\ [][JumpIfNotErrPending =>
            /\ error' = error /\ stack' = stack /\ parameter_stack' = parameter_stack
            /\ instruction_pointer' = instruction_pointer + 2
            /\ result' = Pending]_vars
    /\ [][(/\ dispatched.op = "JumpIfNotErr" /\ dispatched.pending
           /\ dispatched.prims[1] >= 0 /\ DispatchesGuarded) =>
            /\ error # NoError /\ error' = error /\ stack' = stack
            /\ result' = Pending]_vars
    /\ [][(Dispatches("ClearError") /\ error # NoError) => error' = NoError]_vars

\* JumpIfNotErr ran over two operands with an error pending, which still is.
C7_Witness ==
    /\ dispatched.op = "JumpIfNotErr" /\ dispatched.pending /\ dispatched.depth = 2
    /\ dispatched.prims = <<2>> /\ instruction_pointer = dispatched.at + 2
    /\ error # NoError /\ result = Pending

\* C8: SetPath(tgt) over a non-empty stack leaves the top value v at
\* targets[tgt] (nothing where the descriptor is None or Stack) and the operand
\* stack as it was, v on top; a store the host target refuses ends the
\* invocation instead.  Constant(k); SetPath(a); Return stores constants[k] in a
\* and returns it, and a chain of SetPath stores the value in each target.
C8_SetPath ==
    /\ [][(/\ Dispatches("SetPath") /\ Operand(1) >= 0 /\ Operand(1) < Len(targets)
           /\ stack # <<>>) =>
            IF result' = Pending
            THEN /\ stack' = stack /\ error' = error
                 /\ instruction_pointer' = instruction_pointer + 2
                 /\ Storable(TargetOf(1)) =>
                       Stored(variables', target', TargetOf(1)) = Top(stack)
                 /\ OnlyStoredAt(TargetOf(1), TargetOf(1))
            ELSE HostFailed(TargetOf(1), TargetOf(1))]_vars
    /\ [](\A k \in 0..(Len(SpecValues) - 1) :
            (instructions = ProgAssign(k) /\ phase = "done") =>
               result = OkRes(SpecValues[k + 1]) /\ variables["a"] = SpecValues[k + 1])
    /\ []((instructions = ProgChained /\ phase = "done") =>
            /\ result = OkRes(SpecValues[1])
            /\ variables["a"] = SpecValues[1] /\ variables["b"] = SpecValues[1])

\* The chained assignment returned.
C8_Witness ==
    /\ instructions = ProgChained /\ phase = "done" /\ dispatched.op = "Return"
    /\ result.kind = "Ok" /\ variables["a"] = result.value /\ variables["b"] = result.value

\* This step dispatches a conditional jump, with its offset, over a value.
DispatchesConditional(op) ==
    Dispatches(op) /\ Operand(1) >= 0 /\ stack # <<>>

\* C10: JumpIfFalse(offset) moves the pointer by the offset exactly when the
\* top of the stack is not Boolean(true), JumpIfTrue(offset) exactly when it is;
\* otherwise the pointer only passes the offset.  Neither changes the operand
\* stack: the tested value is still on top.
C10_ConditionalJumps ==
    /\ [][DispatchesConditional("JumpIfFalse") =>
            /\ stack' = stack /\ result' = Pending /\ error' = error
            /\ instruction_pointer' = instruction_pointer + 2
                  + (IF Top(stack) # Boolean(TRUE) THEN Operand(1) ELSE 0)]_vars
    /\ [][DispatchesConditional("JumpIfTrue") =>
            /\ stack' = stack /\ result' = Pending /\ error' = error
            /\ instruction_pointer' = instruction_pointer + 2
                  + (IF Top(stack) = Boolean(TRUE) THEN Operand(1) ELSE 0)]_vars

\* JumpIfFalse(2) jumped over the integer 1, which is still on top.
C10_Witness ==
    /\ dispatched.op = "JumpIfFalse" /\ dispatched.prims = <<2>> /\ dispatched.depth = 1
    /\ instruction_pointer = dispatched.at + 4 /\ stack = <<Integer(1)>>
    /\ result = Pending

\* This step dispatches the jump opcode whose offset is slot j of `jumps`, and
\* that opcode jumps in the state it is dispatched in.
TakesJump(j) ==
    /\ phase = "run"
    /\ dispatched'.op \in JumpOps
    /\ dispatched'.at + 1 = jumps[j].slot
    /\ CASE dispatched'.op = "Jump" -> TRUE
         [] dispatched'.op = "JumpIfNotErr" -> error = NoError
         [] dispatched'.op = "JumpIfFalse" -> stack # <<>> /\ Top(stack) # Boolean(TRUE)
         [] dispatched'.op = "JumpIfTrue" -> stack # <<>> /\ Top(stack) = Boolean(TRUE)

\* C9: the primitive of a jump emitted with emit_jump and patched with
\* patch_jump(slot) is (length of the stream at the patch) - slot - 1, which is
\* not negative, and while unpatched it is the placeholder; a patched jump that
\* is taken at run time leaves the instruction pointer at the length the stream
\* had at the patch, one past the last instruction written before it.
C9_JumpArithmetic ==
    /\ [](\A j \in DOMAIN jumps :
            /\ jumps[j].slot < Len(instructions)
            /\ instructions[jumps[j].slot] \in {OpCode(op) : op \in JumpOps}
            /\ IF jumps[j].patched
               THEN /\ instructions[jumps[j].slot + 1]
                          = Primitive(jumps[j].len - jumps[j].slot - 1)
                    /\ jumps[j].len - jumps[j].slot - 1 >= 0
                    /\ jumps[j].len <= Len(instructions)
               ELSE instructions[jumps[j].slot + 1] = Primitive(UsizeMax))
    /\ [][\A j \in DOMAIN jumps :
            (jumps[j].patched /\ TakesJump(j)) =>
                /\ instruction_pointer' = jumps[j].len
                /\ result' = Pending /\ stack' = stack /\ error' = error]_vars

\* A conditional jump emitted after a constant, patched after two more slots
\* were written, was taken and landed at the length the stream had at the patch.
C9_Witness ==
    /\ phase = "run" /\ jumps # <<>> /\ jumps[1].patched
    /\ dispatched.op = "JumpIfFalse" /\ dispatched.at + 1 = jumps[1].slot
    /\ jumps[1].len = jumps[1].slot + 3
    /\ instruction_pointer = jumps[1].len /\ result = Pending

\* C11: Return ends interpretation with Ok(v), v the top of the operand stack,
\* or with Ok(Null) when the stack is empty; a program that is a single Return
\* yields Null, and Constant(k); Return yields constants[k] for every slot k.
C11_Return ==
    /\ [][Dispatches("Return") =>
            /\ phase' = "done"
            /\ result' = OkRes(IF stack = <<>> THEN Null ELSE Top(stack))]_vars
    /\ []((instructions = ProgReturn /\ phase = "done") => result = OkRes(Null))
    /\ [](\A k \in 0..(Len(SpecValues) - 1) :
            (instructions = ProgRoundTrip(k) /\ phase = "done") =>
                result = OkRes(SpecValues[k + 1]))

\* Constant(6); Return returned the object that is constants[6].
C11_Witness ==
    /\ instructions = ProgRoundTrip(6) /\ phase = "done" /\ dispatched.op = "Return"
    /\ dispatched.depth = 1 /\ result = OkRes(SpecValues[7])

\* This step dispatches CreateObject(2) over two pairs that carry the same key.
DuplicateKeys ==
    /\ Dispatches("CreateObject") /\ Operand(1) = 2 /\ Len(stack) >= 4
    /\ stack[Len(stack) - 1].t = "Bytes"
    /\ stack[Len(stack) - 3] = stack[Len(stack) - 1]

\* C12: CreateObject over pairs pushed in order, two of them with the same key:
\* the Object it pushes holds, at that key, the value of the pair pushed later.
C12_LastPushedWins ==
    [][DuplicateKeys =>
        /\ result' = Pending /\ stack' # <<>> /\ Top(stack').t = "Object"
        /\ Top(stack').v[Top(Pop(stack)).v] = Top(stack)]_vars

\* This step dispatches CreateArray(n) over at least n values.
CreatesArray(n) ==
    Dispatches("CreateArray") /\ Operand(1) = n /\ n <= Len(stack)

\* C13: CreateArray(n) over at least n values pops exactly n of them and pushes
\* one Array of n elements, the deepest of the n values at element 0 and the
\* former top of the stack at element n - 1; the stack below them is untouched.
C13_CreateArray ==
    [][\A n \in 0..(MaxCount + 1) : CreatesArray(n) =>
        /\ result' = Pending
        /\ Len(stack') = Len(stack) - n + 1
        /\ \A i \in 1..(Len(stack) - n) : stack'[i] = stack[i]
        /\ Top(stack').t = "Array" /\ Len(Top(stack').v) = n
        /\ \A i \in 1..n : Top(stack').v[i] = stack[Len(stack) - n + i]
        /\ error' = error /\ parameter_stack' = parameter_stack]_vars

\* CreateArray(2) ran over three values, the upper two of them different.
C13_Witness ==
    /\ dispatched.op = "CreateArray" /\ dispatched.prims = <<2>> /\ dispatched.depth = 3
    /\ stack = <<Integer(1), Array(<<Integer(1), Boolean(TRUE)>>)>>

\* This step dispatches Call on a registered function, with its spans, over a
\* parameter stack that holds a slot for each declared parameter.
CallsFunction ==
    /\ Dispatches("Call")
    /\ \A k \in 1..3 : Operand(k) >= 0
    /\ Operand(1) < Len(fns)
    /\ Len(fns[Operand(1) + 1].parameters) <= Len(parameter_stack)

\* The message of a call error starts with the function and the span.
Annotation(function, span_start, span_end) ==
    "function call error for \"" \o function.identifier \o "\" at ("
    \o ToString(span_start) \o ":" \o ToString(span_end) \o "): "

\* C14: Call(fn, s, e) removes the last N slots of the parameter stack, N the
\* number of parameters functions[fn] declares, hands them over in their order
\* and leaves the slots below untouched.  When the argument check and the call
\* succeed the result is pushed and the error register is as it was; when
\* either fails with an error that is not Abort nothing is pushed and the error
\* register holds an error whose message names the function and the span (s:e).
C14_Call ==
    [][CallsFunction =>
        LET function == fns[Operand(1) + 1]
            N == Len(function.parameters)
            args == [i \in 1..N |-> parameter_stack[Len(parameter_stack) - N + i]]
            failed ==
                /\ stack' = stack
                /\ error'.kind = "Error"
                /\ \E m \in {"missing required argument", "function failed"} :
                      error'.message = Annotation(function, Operand(2), Operand(3)) \o m
        IN /\ Len(parameter_stack') = Len(parameter_stack) - N
           /\ \A i \in 1..(Len(parameter_stack) - N) :
                 parameter_stack'[i] = parameter_stack[i]
           /\ instruction_pointer' = instruction_pointer + 4
           /\ IF ~check_arguments(function.parameters, args)
              THEN failed /\ result' = Pending
              ELSE \/ /\ result' = Pending
                      /\ stack' = Append(stack, FnValue(args)) /\ error' = error
                   \/ result' = Pending /\ failed
                   \/ result'.kind = "Panic" /\ stack' = stack /\ error' = error]_vars

\* g was called at (0:1) with the upper two of three slots and failed: the
\* lowest slot is left and the error names g and the span.
C14_Witness ==
    /\ dispatched.op = "Call" /\ dispatched.prims = <<1, 0, 1>>
    /\ instructions = ProgParamsAbsent
    /\ parameter_stack = <<ParamValue(Integer(1))>>
    /\ stack = <<>>
    /\ error = Error("function call error for \"g\" at (0:1): function failed")

\* C15: after any sequence of get_target calls no two entries of the target
\* table are equal; a call appends one entry when the target is absent and
\* leaves the table as it is when the target is present, so entries are never
\* removed or reordered; and every slot ever returned for a target still holds
\* that target, the same slot for every call with an equal target.
C15_GetTarget ==
    /\ [](\A i, j \in DOMAIN targets : targets[i] = targets[j] => i = j)
    /\ [](\A p \in returned :
            /\ p.slot < Len(targets) /\ targets[p.slot + 1] = p.target
            /\ \A q \in returned : q.target = p.target => q.slot = p.slot)
    /\ [][\/ targets' = targets
          \/ \E variable \in TargetPool :
                /\ \A i \in DOMAIN targets : targets[i] # variable
                /\ targets' = Append(targets, variable)]_vars

\* The table holds every descriptor asked for, each at the slot returned for it,
\* the first in slot 0 and the last in the last slot.
C15_Witness ==
    /\ Len(targets) = Cardinality(TargetPool)
    /\ Cardinality(returned) = Len(targets)
    /\ [target |-> NoneVar, slot |-> 0] \in returned
    /\ [target |-> Internal("a"), slot |-> Len(targets) - 1] \in returned

\* The path holds an Index segment with a negative index.
NegativeSegment ==
    \E i \in DOMAIN lookup : lookup[i].tag = "Index" /\ lookup[i].index < 0

\* C16: for every Kind and every path, find_at_path returns
\* Err(NegativeIndexPath) if and only if the path holds an Index segment with a
\* negative index, wherever that segment sits and whether or not the segments
\* before it resolve.
C16_NegativeIndex ==
    found # Searching => (found = NegativeIndexPath <=> NegativeSegment)

\* Some Kind a segment of the path was applied to, the Kind searched or one
\* reached on the way, is not exact.
Inexact == \E i \in DOMAIN trail : ~is_exact(trail[i])

\* C17 as stated: for an exact Kind K, a result Some(K') contains null only if
\* some Kind along the path, the one the path leads to included, is not exact.
C17_Original ==
    (found.tag = "Some" /\ is_exact(self_kind) /\ contains_null(found.kinds[1])) =>
        (Inexact \/ ~is_exact(reached[1]))

\* C17, amended: for an exact Kind K, a result Some(K') contains null only if K
\* or a Kind traversed along the path was not exact, or the Kind the path
\* leads to contains null itself.
C17_NullOrigin ==
    (found.tag = "Some" /\ is_exact(self_kind) /\ contains_null(found.kinds[1])) =>
        (Inexact \/ contains_null(reached[1]))

\* An exact object whose field foo is an object or null: .foo.foo leads to an
\* integer and the result is integer or null.
C17_Witness ==
    /\ found = OkSome(Shape({"integer", "null"}))
    /\ reached = <<Shape({"integer"})>>
    /\ is_exact(self_kind) /\ Len(trail) = 2 /\ ~is_exact(trail[2])
    /\ lookup = <<Field("foo"), Field("foo")>>

\* C18: for a path that is not the root and resolves, the result contains null
\* if the Kind searched or a Kind a later segment was applied to is not exact;
\* the Kind the last segment leads to is not tested for exactness, it is
\* returned as it is when every Kind before it is exact; and for the root path
\* the result is the Kind searched, unchanged, exact or not.
C18_OrNull ==
    found.tag = "Some" =>
        IF lookup = <<>>
        THEN found = OkSome(self_kind)
        ELSE /\ Inexact => contains_null(found.kinds[1])
             /\ found.kinds[1] = (IF Inexact THEN OrNullKind(reached[1]) ELSE reached[1])

\* ({foo: integer} or null) at .foo gives integer or null.
C18_Witness ==
    /\ self_kind = OrNullKind(ObjectKind(<<Entry("foo", Shape({"integer"}))>>, NoUnknown))
    /\ lookup = <<Field("foo")>>
    /\ found = OkSome(Shape({"integer", "null"}))

\* This step takes a segment of the given tag.
Takes(tag) ==
    /\ found = Searching /\ segment_index < Len(lookup)
    /\ lookup[segment_index + 1].tag = tag

\* What a Field or Index segment with key `key` does on the collection `c` of
\* the Kind it is applied to.
Resolves(c, key) ==
    LET hit == {i \in DOMAIN c.known : c.known[i].key = key}
    IN CASE ~c.some -> found' = OkNone
         [] c.some /\ hit # {} ->
               /\ found' = Searching
               /\ \E i \in hit : kind' = c.known[i].kind
         [] c.some /\ hit = {} /\ c.unknown.tag = "None" -> found' = OkNone
         [] c.some /\ hit = {} /\ c.unknown.tag = "Exact" ->
               found' = Searching /\ kind' = c.unknown.kinds[1]
         [] OTHER ->
               /\ reached' = <<InfiniteKind>>
               /\ found' = OkSome(IF Inexact' THEN OrNullKind(InfiniteKind)
                                  ELSE InfiniteKind)

KnownAlternatives ==
    LET fields == lookup[segment_index + 1].fields
    IN {i \in DOMAIN fields :
          \E e \in DOMAIN kind.object.known : kind.object.known[e].key = fields[i]}

C20_FirstListed ==
    /\ found = Searching /\ segment_index = 1
    /\ lookup[1] = Coalesce(<<"bar", "foo">>)
    /\ contains_key(trail[1].object.known, "bar")
    /\ contains_key(trail[1].object.known, "foo")
    /\ KnownGet(trail[1].object.known, "bar") # KnownGet(trail[1].object.known, "foo")
    /\ kind = KnownGet(trail[1].object.known, "bar")

\* (bar|foo) was looked up in an object that knows foo only.
C20_LaterListed ==
    /\ found = Searching /\ segment_index = 1
    /\ lookup[1] = Coalesce(<<"bar", "foo">>)
    /\ ~contains_key(trail[1].object.known, "bar")
    /\ kind = KnownGet(trail[1].object.known, "foo")

\* The calls on the host that a store to, or a load from, a descriptor makes.
CallsOn(variable, store) ==
    CASE variable.tag = "Internal" ->
            <<Effect(IF store THEN "write" ELSE "read", variable.ident)>>
      [] variable.tag = "External" ->
            <<Effect(IF store THEN "insert" ELSE "get", "")>>
      [] OTHER -> <<>>

\* The k-th primitive of the instruction this step dispatches names an entry of
\* a table of that length.
Names(k, length) == Operand(k) >= 0 /\ Operand(k) < length

\* The calls on the host that the instruction this step dispatches makes, in
\* the order of its arm, when none of them fails.
Caused ==
    CASE Dispatches("SetPath") /\ Names(1, Len(targets)) /\ stack # <<>> ->
            CallsOn(TargetOf(1), TRUE)
      [] /\ Dispatches("SetPathInfallible")
         /\ Names(1, Len(targets)) /\ Names(2, Len(targets)) /\ Names(3, Len(values))
         /\ error # NoError \/ stack # <<>> ->
            CallsOn(TargetOf(1), TRUE) \o CallsOn(TargetOf(2), TRUE)
      [] Dispatches("GetPath") /\ Names(1, Len(targets)) ->
            CallsOn(TargetOf(1), FALSE)
      [] /\ Dispatches("Call")
         /\ Names(1, Len(fns)) /\ Operand(2) >= 0 /\ Operand(3) >= 0
         /\ Len(parameter_stack) >= Len(fns[Operand(1) + 1].parameters)
         /\ check_arguments(fns[Operand(1) + 1].parameters,
                            LastN(parameter_stack, Len(fns[Operand(1) + 1].parameters))) ->
            <<Effect("call", fns[Operand(1) + 1].identifier)>>
      [] OTHER -> <<>>

\* The calls a step makes on the host are those of the instruction it
\* dispatches, in the order of its arm, up to the first that fails.
CallsInOrder ==
    /\ IsPrefix(effects'.calls, Caused)
    /\ Caused # <<>> => effects'.calls # <<>>
    /\ result' = Pending => effects'.calls = Caused
    /\ IF effects'.calls = <<>>
       THEN effects'.at = effects.at /\ effects'.before = effects.before
       ELSE effects'.at = dispatched'.at /\ effects'.before = effects.at

C21_TwoStores ==
    /\ instructions = ProgRecover /\ dispatched.op = "SetPathInfallible"
    /\ effects = [calls |-> <<Effect("write", "a"), Effect("write", "b")>>,
                  at |-> 5, before |-> -1]

\* The loop stored to a at position 2 once more, after its jump had wrapped.
C21_Wrapped ==
    /\ instructions = ProgLoop /\ dispatched.op = "SetPath" /\ dispatched.wrapped
    /\ effects = [calls |-> <<Effect("write", "a")>>, at |-> 2, before |-> 2]

\* This step fetches a primitive where an opcode is expected, or an opcode (or
\* the end of the stream) where a primitive is.
Misplaced ==
    \/ dispatched'.op = ""
    \/ \E k \in DOMAIN dispatched'.prims : Operand(k) < 0

\* This step dispatches an opcode that takes more operands than the stack holds.
Underflows ==
    /\ ~Misplaced
    /\ \/ DispatchesGuarded /\ error = NoError /\ Len(stack) < 2
       \/ dispatched'.op \in {"Equal", "NotEqual"} /\ Len(stack) < 2
       \/ dispatched'.op \in {"JumpIfFalse", "JumpIfTrue"} /\ stack = <<>>
       \/ Dispatches("SetPath") /\ Names(1, Len(targets)) /\ stack = <<>>
       \/ Dispatches("CreateArray") /\ Operand(1) > Len(stack)
       \/ Dispatches("CreateObject") /\ Operand(1) > 0 /\ Len(stack) < 2
       \/ /\ Dispatches("GetPath") /\ Names(1, Len(targets))
          /\ TargetOf(1).tag = "Stack" /\ stack = <<>>

\* This step dispatches an opcode with a slot primitive that names no entry of
\* its table.
OutOfRange ==
    /\ ~Misplaced
    /\ \/ Dispatches("Constant") /\ Operand(1) >= Len(values)
       \/ dispatched'.op \in {"SetPath", "GetPath"} /\ Operand(1) >= Len(targets)
       \/ /\ Dispatches("SetPathInfallible")
          /\ \/ Operand(1) >= Len(targets) \/ Operand(2) >= Len(targets)
             \/ Operand(3) >= Len(values)
       \/ Dispatches("MoveStatic") /\ Operand(1) >= Len(static_params)
       \/ Dispatches("Call") /\ Operand(1) >= Len(fns)

\* C22: malformed bytecode ends the invocation with an error returned to the
\* caller: a primitive where an opcode is expected or the reverse, too few
\* operands on the stack, or a constant, target, static-parameter or function
\* slot out of the range of its table.
C22_MalformedIsError ==
    [][(phase = "run" /\ (Misplaced \/ Underflows \/ OutOfRange)) =>
          result'.kind = "Err"]_vars

\* The part that holds: a misplaced slot or too few operands is an error
\* returned, and so is a constant slot out of range.
MisplacedIsError ==
    [][(phase = "run" /\ (Misplaced \/ Underflows
                          \/ (Dispatches("Constant") /\ OutOfRange))) =>
          result'.kind = "Err"]_vars

\* A target slot out of range was dispatched, and interpret panicked.
TargetOutOfRange ==
    /\ dispatched.op \in {"SetPath", "GetPath"} /\ dispatched.prims = <<Len(targets)>>
    /\ result = PanicRes("index out of bounds")

C23_Interleaved ==
    /\ instructions = ProgRead
    /\ invocations[1].state.ip = 2 /\ invocations[2].state.ip = 4
    /\ invocations[1].given # invocations[2].given

\* This step looks a key up in a collection that does not know it and whose
\* unknown descriptor is infinite.
MissesInto(c, keys) ==
    /\ c.some /\ c.unknown.tag = "Infinite"
    /\ \A i \in DOMAIN keys : ~contains_key(c.known, keys[i])

\* The search stops at the segment this step takes: it returns the infinite
\* Kind, joined with null if a Kind a segment was applied to was not exact, and
\* so does the search of every path that goes on from that segment.
StopsHere ==
    /\ reached' = <<InfiniteKind>>
    /\ found' = OkSome(IF Inexact' THEN OrNullKind(InfiniteKind) ELSE InfiniteKind)
    /\ \A rest \in PathsOf(MaxPath) :
          find_at_path(self_kind, SubSeq(lookup, 1, segment_index + 1) \o rest) = found'

FinderAgrees == found # Searching => found = find_at_path(self_kind, lookup)

\* C25: GetPath(tgt) changes neither the variable store nor the event target.
\* For an External, Internal or None target it pushes one value: what the
\* event holds at the path, what the store holds for the variable (at the
\* sub-path, if there is one), Null where there is none and for None.  For a
\* Stack target it pops the top value and pushes what that holds at the path,
\* or Null: the stack keeps its size.  A load the host target refuses, and a
\* Stack target over an empty stack, end the invocation instead.
C25_GetPath ==
    [][(Dispatches("GetPath") /\ Names(1, Len(targets))) =>
          /\ variables' = variables /\ target' = target
          /\ error' = error /\ parameter_stack' = parameter_stack
          /\ IF result' = Pending
             THEN /\ instruction_pointer' = instruction_pointer + 2
                  /\ CASE TargetOf(1).tag = "Stack" ->
                            /\ stack # <<>> /\ Len(stack') = Len(stack)
                            /\ stack' = Append(Pop(stack),
                                  OrNull(get_by_path(Top(stack), TargetOf(1).path)))
                       [] TargetOf(1).tag = "None" -> stack' = Append(stack, Null)
                       [] OTHER ->
                            stack' = Append(stack,
                                  OrNull(Stored(variables, target, TargetOf(1))))
             ELSE /\ stack' = stack /\ result'.kind = "Err"
                  /\ \/ TargetOf(1).tag = "External"
                     \/ TargetOf(1).tag = "Stack" /\ stack = <<>>]_vars

\* GetPath(Stack(.k)) ran over the object {k: 1} on top of the stack, which now
\* holds 1 in its place, with the object still stored in a.
C25_Witness ==
    /\ instructions = ProgStored
    /\ dispatched.op = "GetPath" /\ dispatched.prims = <<5>> /\ dispatched.depth = 1
    /\ stack = <<Integer(1)>> /\ variables["a"] = SpecValues[7]
    /\ result = Pending

\* GetPath(a.k) pushed the 1 that the object stored in a holds at k.
C25_SubPath ==
    /\ instructions = ProgStored
    /\ dispatched.op = "GetPath" /\ dispatched.prims = <<4>> /\ dispatched.depth = 1
    /\ stack = <<SpecValues[7], Integer(1)>> /\ result = Pending

\* GetPath(.x) pushed what the event holds at x.
C25_External ==
    /\ dispatched.op = "GetPath" /\ dispatched.prims = <<2>>
    /\ target # EmptyObject /\ Top(stack) = target_get(target, <<"x">>)
    /\ result = Pending

\* C26: Equal and NotEqual dispatched with an error pending over at least two
\* operands pop both and push one Boolean, the lossy equality of the two for
\* Equal and its negation for NotEqual, and leave the error in the register.
C26_EqualUnguarded ==
    [][(/\ phase = "run" /\ dispatched'.op \in {"Equal", "NotEqual"}
        /\ error # NoError /\ Len(stack) >= 2) =>
          /\ stack' = Append(Pop(Pop(stack)),
                             Boolean(eq_lossy(Lhs, Rhs) = (dispatched'.op = "Equal")))
          /\ Len(stack') = Len(stack) - 1
          /\ error' = error
          /\ instruction_pointer' = instruction_pointer + 1
          /\ result' = Pending]_vars

\* With the division error pending, Equal compared the integer 1 with the
\* float 1.0 over the integer 1: true was pushed and the error is still there.
C26_Witness ==
    /\ instructions = ProgFailedDeep
    /\ dispatched.op = "Equal" /\ dispatched.pending /\ dispatched.depth = 3
    /\ stack = <<Integer(1), Boolean(TRUE)>>
    /\ error = Error("can't divide by zero") /\ result = Pending

\* With the division error pending, NotEqual compared 1 with 0: true.
C26_NotEqual ==
    /\ instructions = ProgFailedDeep
    /\ dispatched.op = "NotEqual" /\ dispatched.pending /\ dispatched.depth = 3
    /\ stack = <<Integer(1), Boolean(TRUE)>>
    /\ error = Error("can't divide by zero") /\ result = Pending

C27_Wrapped ==
    /\ instructions = ProgLoop /\ dispatched.op = "Jump" /\ dispatched.wrapped
    /\ instruction_pointer = 0 /\ result = Pending

\* C28: Return dispatched while an error is pending ends the invocation with
\* Ok of the top of the stack, or of Null over an empty stack; the error is not
\* handed to the caller nor stored anywhere in the host context.  Constant(1),
\* Constant(0), Divide, Return yields Ok(Null).
C28_ReturnDropsError ==
    /\ [][(Dispatches("Return") /\ error # NoError) =>
            /\ phase' = "done"
            /\ result'.kind = "Ok" /\ result'.message = ""
            /\ result'.value = (IF stack = <<>> THEN Null ELSE Top(stack))
            /\ variables' = variables /\ target' = target
            /\ effects'.calls = <<>>]_vars
    /\ []((/\ instructions = ProgFailed /\ dispatched.op = "Return"
           /\ dispatched.at = Len(ProgFailed)) =>
            phase = "done" /\ result = OkRes(Null))

\* Constant(1), Constant(0), Divide, Return returned Ok(Null) with the
\* division error pending.
C28_Witness ==
    /\ instructions = ProgFailed /\ dispatched.op = "Return"
    /\ dispatched.at = Len(ProgFailed) /\ dispatched.pending /\ dispatched.depth = 0
    /\ error = Error("can't divide by zero")
    /\ phase = "done" /\ result = OkRes(Null)

\* Return over two values with the division error pending returned the top one.
C28_OverValues ==
    /\ instructions = ProgFailedDeep /\ dispatched.op = "Return"
    /\ dispatched.pending /\ dispatched.depth = 2 /\ result = OkRes(Integer(1))

\* This step dispatches Negate over no Float, or Not over no Boolean.
Mistyped ==
    \/ Dispatches("Negate") /\ (stack = <<>> \/ Top(stack).t # "Float")
    \/ Dispatches("Not") /\ (stack = <<>> \/ Top(stack).t # "Boolean")

\* C29: Negate over an empty stack or a top that is no Float (an Integer
\* included), and Not over an empty stack or a top that is no Boolean, end the
\* invocation at once with an error for the caller; the error register is left
\* as it was, and the ClearError, SetPathInfallible and Return stored after the
\* instruction are never dispatched.
C29_MismatchIsFatal ==
    /\ [][Mistyped =>
            /\ phase' = "done"
            /\ result'.kind = "Err"
            /\ result'.message =
                 (IF dispatched'.op = "Negate"
                  THEN (IF stack = <<>> THEN "Negating nothing" ELSE "Negating non number")
                  ELSE (IF stack = <<>> THEN "Notting nothing" ELSE "Notting non boolean"))
            /\ error' = error
            /\ variables' = variables /\ target' = target]_vars
    /\ [][phase = "run"]_vars
    /\ [](instructions \in {ProgNegated, ProgNotted} =>
            /\ dispatched.op \notin {"ClearError", "SetPathInfallible", "Return"}
            /\ error = NoError
            /\ result.kind \in {"Pending", "Err"})

\* Negate over the integer 1 ended the invocation before its stored recovery.
C29_Witness ==
    /\ instructions = ProgNegated /\ dispatched.op = "Negate" /\ dispatched.depth = 1
    /\ phase = "done" /\ result = ErrRes("Negating non number") /\ error = NoError

\* Not over the integer 1 ended the invocation before its stored recovery.
C29_Notted ==
    /\ instructions = ProgNotted /\ dispatched.op = "Not" /\ dispatched.depth = 1
    /\ phase = "done" /\ result = ErrRes("Notting non boolean") /\ error = NoError

\* Negate over an empty stack with an error pending left the register alone.
C29_Nothing ==
    /\ dispatched.op = "Negate" /\ dispatched.depth = 0 /\ dispatched.pending
    /\ phase = "done" /\ result = ErrRes("Negating nothing") /\ error # NoError

\* The two errors of 1 / 0 followed by f(1) at span 0:1.
DivisionError == Error("can't divide by zero")
CallFailed == CallError("f", 0, 1, "function failed")

\* C30: Call dispatched while an error is pending drains the slots of its
\* parameters and, the argument check passed, calls the function on the host;
\* then either the result is pushed and the register holds the error it held,
\* or nothing is pushed and the register holds the error of the call in place
\* of the one it held, or the call has aborted and the machine panics.  After
\* 1 / 0 and f(1) a SetPathInfallible pushes and stores the message of the call
\* error when the call has failed and that of the division when it has not.
C30_CallUnguarded ==
    /\ [][(CallsFunction /\ error # NoError) =>
            LET function == fns[Operand(1) + 1]
                N == Len(function.parameters)
                args == [i \in 1..N |-> parameter_stack[Len(parameter_stack) - N + i]]
                checked == check_arguments(function.parameters, args)
            IN /\ parameter_stack' = SubSeq(parameter_stack, 1, Len(parameter_stack) - N)
               /\ effects'.calls =
                    (IF checked THEN <<Effect("call", function.identifier)>> ELSE <<>>)
               /\ \/ /\ checked /\ result' = Pending
                     /\ stack' = Append(stack, FnValue(args)) /\ error' = error
                  \/ /\ result' = Pending /\ stack' = stack
                     /\ error' = CallError(function.identifier, Operand(2), Operand(3),
                                   IF checked THEN "function failed"
                                   ELSE "missing required argument")
                  \/ checked /\ result'.kind = "Panic"]_vars
    /\ [][(/\ instructions = ProgCalled /\ instruction_pointer = Len(ProgCalled)
           /\ DispatchesInfallible /\ result' = Pending) =>
            /\ error = (IF stack = <<>> THEN CallFailed ELSE DivisionError)
            /\ Top(stack') = Bytes(error.message)
            /\ error' = NoError
            /\ (TargetOf(2).tag = "Internal" /\ ~TargetOf(2).some) =>
                  variables'[TargetOf(2).ident] = Bytes(error.message)]_vars

\* f(1) was called over the pending division error and failed: the register
\* holds the error of the call.
C30_Witness ==
    /\ instructions = ProgCalled /\ dispatched.op = "Call" /\ dispatched.pending
    /\ dispatched.at = Len(ProgParamsFailed)
    /\ effects.calls = <<Effect("call", "f")>>
    /\ parameter_stack = <<>> /\ stack = <<>> /\ error = CallFailed

\* f(1) succeeded over the pending division error, and the SetPathInfallible
\* after it reported the division.
C30_FirstReported ==
    /\ instructions = ProgCalled /\ dispatched.op = "SetPathInfallible"
    /\ dispatched.at = Len(ProgCalled) /\ result = Pending
    /\ stack = <<Integer(1), Bytes(DivisionError.message)>> /\ error = NoError

\* f(1) failed over the pending division error, and the SetPathInfallible after
\* it reported the call.
C30_LastReported ==
    /\ instructions = ProgCalled /\ dispatched.op = "SetPathInfallible"
    /\ dispatched.at = Len(ProgCalled) /\ result = Pending
    /\ stack = <<Bytes(CallFailed.message)>> /\ error = NoError

====
